---- MODULE Spec2Model ----
(***************************************************************************)
(* Model of the surveillance data plane: the churn-limited subscription   *)
(* manager (collector/subscriptions.rs), the time-bucketed Parquet writer  *)
(* (storage/parquet_writer.rs) and the HOT/WARM scheduler                  *)
(* (scheduler/scheduler.rs).  Each subsystem has its own specification;    *)
(* the variables of the other subsystems stay at their idle values.        *)
(***************************************************************************)
EXTENDS Integers, Sequences, FiniteSets, TLC

(***************************************************************************)
(* Bounds of the model.                                                    *)
(***************************************************************************)
MaxUpdates == 3
MaxTicks == 2
MaxChurnLimit == 2
MaxWrites == 3
MaxFlushRows == 2
MaxMarkets == 3
MaxRotations == 2
MaxSchedSubs == 3
MaxSeq == 3
RotationHorizon == 4
MaxSnapTicks == 2
MaxSetUpdates == 1
MaxAdvances == 1
MaxPeriodSecs == 2
MaxSharedRotations == 3
MaxClockSteps == 3
MaxDepth == 3
MaxTopK == 2
MaxBucketMinutes == 7
MaxHotCount == 2
MaxLoopRotations == 2
MaxGenerated == 4
MaxStream == 3

(***************************************************************************)
(* Program constants.                                                      *)
(***************************************************************************)
ChurnWindowSecs == 60
MaxBatch == 500
BucketMinutes == 5
HotDivisor == 10
DefaultChurnLimit == 20
DefaultHotCount == 40
DefaultMaxSubs == 200
SnapshotIntervalMsHot == 2000
SnapshotIntervalMsWarm == 10000
TickMs == 100

\* Feed keys: (market, outcome) pairs on a per-call venue, token ids on the
\* batch venue.  Integers, so that Vec::sort has an order to follow.
Keys == {1, 2}
VenueNames == {"polymarket", "kalshi"}
\* The clock advances by half a churn window at a time, so that a cycle runs
\* both inside a window (30 s elapsed) and exactly at its end (60 s elapsed).
Delays == {ChurnWindowSecs \div 2}

VARIABLES
    \* SubscriptionManager
    venue_name, churn_limit, max_subs,
    current, pending_add, pending_remove, last_churn, churn_count,
    loop_running,
    \* the venue adaptor: keys sent to subscribe and not yet to unsubscribe
    remote,
    \* the clock (seconds) and the number of clock steps taken
    now, ticks,
    \* history: the instant of every adaptor call, the calls of the last
    \* process_pending cycle, the last update_target call with the keys sent
    \* to the adaptor since, the number of update_target calls
    call_times, last_cycle, last_update, updates

subVars == <<venue_name, churn_limit, max_subs, current, pending_add,
             pending_remove, last_churn, churn_count, loop_running, remote,
             now, ticks, call_times, last_cycle, last_update, updates>>

VARIABLES
    \* ParquetWriter
    flush_rows, buffer, current_bucket,
    \* the two tokio mutexes: "free", or the task that holds the guard
    buffer_lock, bucket_lock,
    \* the writer's caller (ParquetWriter::write) and the periodic flush task
    wpc, w_row, tpc,
    \* the flush in progress (flush_internal / write_parquet_file)
    fl,
    \* the file system: `{prefix}.parquet.tmp` and `{prefix}.parquet` per
    \* venue directory and bucket
    files,
    \* history: the number of write calls, the paths where a flush failed
    \* after its temp file was created
    writes, failed_paths,
    \* history: the (venue, bucket) pairs whose published file a later flush
    \* replaced
    replaced,
    \* history: the ids of the rows whose write call returned Ok, and whether
    \* any flush has failed
    accepted, flush_failed

writerVars == <<flush_rows, buffer, current_bucket, buffer_lock, bucket_lock,
                wpc, w_row, tpc, fl, files, writes, failed_paths, replaced,
                accepted, flush_failed>>

VARIABLES
    \* Scheduler: the venue it is asked about and that venue's max_subs
    sched_venue, sched_max_subs,
    \* the hot_count line of that venue's configuration: <<>> when the file
    \* has none, <<n>> when it says hot_count = n
    hot_count_line,
    \* the universe file (MarketInfo lines, each with the score it gets)
    markets,
    rotation_cursor, current_hot, current_warm,
    \* history: the number of get_target_subscriptions calls, the union of
    \* the WARM sets they returned
    rotations, warm_union

schedVars == <<sched_venue, sched_max_subs, hot_count_line, markets, rotation_cursor,
               current_hot, current_warm, rotations, warm_union>>

VARIABLES
    \* WebSocketMetrics.sequence_gaps: the SequenceTracker of every key
    sequence_gaps,
    \* history: the sequences received for every key, in order
    streams

metricsVars == <<sequence_gaps, streams>>

VARIABLES
    \* BookStore.books and the tokio mutex around the store
    book_store, book_lock,
    \* the feed-read task of Collector::run and the update it holds
    fpc, f_update,
    \* Snapshotter: the tier sets and the next sampling instant of every key
    hot_set, warm_set, next_snapshot,
    \* the snapshot task (take_snapshots): position, the instant and the tier
    \* sets it read, the keys still to visit, the row it made
    spc, snap_at, seen_hot, seen_warm, snap_todo, snap_row,
    \* the caller of update_sets: position and the arguments of the call
    upc, u_sets,
    \* the clock, milliseconds
    clock,
    \* history: the rows made for every key, the (HOT, WARM) pairs passed to
    \* update_sets, the numbers of ticks, update_sets calls and clock steps
    snapshot_rows, installed, snap_ticks, set_updates, advances,
    \* history: for every key, the ticks at which a row of it was handed to the
    \* writer: the instant of the tick, whether the key was in the HOT and the
    \* WARM set read at the tick, the interval chosen, and whether write
    \* returned Ok
    samples,
    \* history: for every key of the HOT set, the instant of the update_sets
    \* call that put it there (-1 for a key that is not in the HOT set)
    hot_since

collectorVars == <<book_store, book_lock, fpc, f_update, hot_set, warm_set,
                   next_snapshot, spc, snap_at, seen_hot, seen_warm, snap_todo,
                   snap_row, upc, u_sets, clock, snapshot_rows, installed, snap_ticks,
                   set_updates, advances, samples, hot_since>>

VARIABLES
    \* Config.rotation.enabled, and rotation_period_secs and max_subs of every
    \* venue that has a configuration
    rotation_enabled, rotation_period_secs, venue_max_subs,
    \* Scheduler.last_rotation in milliseconds, -1 for None
    last_rotation,
    \* the clock of the process, milliseconds
    sched_now,
    \* where the rotation loop of every venue's collector stands
    rot_pc,
    \* history: per venue, what its own last rotation computed and handed to
    \* its snapshotter and subscription manager, and when it marked it
    own,
    \* history: the instant of the last mark_rotated, -1 when there was none,
    \* and the number of clock steps
    marked_at, clock_steps

sharedVars == <<rotation_enabled, rotation_period_secs, venue_max_subs,
                last_rotation, sched_now, rot_pc, own, marked_at, clock_steps>>

VARIABLES
    \* Config.storage.top_k
    top_k,
    \* BookState.bids and BookState.asks of one key, as the feed left them
    book_bids, book_asks,
    \* the SnapshotRow the snapshotter hands to the writer for the key
    made_row

rowVars == <<top_k, book_bids, book_asks, made_row>>

VARIABLES
    \* two ts_recv values and Config.storage.bucket_minutes
    tb_ts, tb_minutes,
    \* the TimeBucket values computed for the two
    tb_buckets

bucketVars == <<tb_ts, tb_minutes, tb_buckets>>

VARIABLES
    \* the main loop of Collector::run: its position, the (hot, warm) it got
    \* from get_target_subscriptions
    lpc, l_hot, l_warm,
    \* history: the number of rotation steps the loop has begun
    loop_rotations

loopVars == <<lpc, l_hot, l_warm, loop_rotations>>

VARIABLES
    \* the venue adaptor in use, "mock" or "polymarket", and the keys subscribed
    adaptor, adaptor_subscribed,
    \* MockVenue.sequence, PolymarketVenue.market_sequences (0: no entry)
    mock_sequence, market_sequences,
    \* the adaptor's queue of updates (MockVenue.updates,
    \* PolymarketVenue.message_queue)
    message_queue,
    \* history: the number of updates the adaptor has made
    generated

adaptorVars == <<adaptor, adaptor_subscribed, mock_sequence, market_sequences, message_queue,
                 generated>>

vars == <<subVars, writerVars, schedVars, metricsVars, collectorVars, sharedVars,
          rowVars, bucketVars, loopVars, adaptorVars>>

\* What a step of one subsystem leaves alone.
othersThanSub == <<writerVars, schedVars, metricsVars, collectorVars, sharedVars, rowVars, bucketVars, loopVars, adaptorVars>>
othersThanWriter == <<subVars, schedVars, metricsVars, collectorVars, sharedVars, rowVars, bucketVars, loopVars, adaptorVars>>
othersThanSched == <<subVars, writerVars, metricsVars, collectorVars, sharedVars, rowVars, bucketVars, loopVars, adaptorVars>>
othersThanMetrics == <<subVars, writerVars, schedVars, collectorVars, sharedVars, rowVars, bucketVars, loopVars, adaptorVars>>
othersThanCollector == <<subVars, writerVars, schedVars, sharedVars, rowVars, bucketVars, loopVars, adaptorVars>>
othersThanShared == <<subVars, writerVars, metricsVars, collectorVars, rowVars, bucketVars, loopVars, adaptorVars>>
othersThanRow == <<subVars, writerVars, schedVars, metricsVars, collectorVars, sharedVars,
                  bucketVars, loopVars, adaptorVars>>
othersThanBucket == <<subVars, writerVars, schedVars, metricsVars, collectorVars,
                     sharedVars, rowVars, loopVars, adaptorVars>>
othersThanLoop == <<writerVars, metricsVars, rowVars, bucketVars, adaptorVars>>
othersThanAdaptor == <<subVars, writerVars, schedVars, collectorVars, sharedVars, rowVars,
                      bucketVars, loopVars>>

(***************************************************************************)
(* Helpers on sequences and sets.                                          *)
(***************************************************************************)
Range(s) == {s[i] : i \in 1..Len(s)}

Min(a, b) == IF a < b THEN a ELSE b

Max(a, b) == IF a > b THEN a ELSE b

\* The orders in which a HashSet's elements can be collected into a Vec.
Orders(S) ==
    {s \in [1..Cardinality(S) -> S] : \A i, j \in 1..Cardinality(S) : s[i] = s[j] => i = j}

\* Vec::sort followed by Vec::dedup over integer keys.
RECURSIVE SortSet(_)
SortSet(S) ==
    IF S = {} THEN <<>>
    ELSE LET m == CHOOSE x \in S : \A y \in S : x <= y
         IN <<m>> \o SortSet(S \ {m})

SortDedup(s) == SortSet(Range(s))

\* Vec::retain
Retain(s, Keep(_)) == SelectSeq(s, Keep)

\* s without its first n elements (n <= Len(s))
DropFirst(s, n) == SubSeq(s, n + 1, Len(s))

(***************************************************************************)
(* SubscriptionManager::process_pending.  failAt is the index, among the   *)
(* adaptor calls of this cycle, of the call that returns Err (0: none).    *)
(* Each phase yields the queue it leaves, the churn count, the calls it    *)
(* issued (the last one failed iff failed) and whether `?` returned early. *)
(***************************************************************************)
Call(op, keys, ok) == [op |-> op, keys |-> keys, ok |-> ok]

\* lines 83-119: the batched subscribe of the "polymarket" venue
PolymarketAddPhase(padd, cnt, limit, cap, failAt) ==
    LET capped == IF Len(padd) > cap THEN DropFirst(padd, Len(padd) - cap) ELSE padd
        token_ids == SortDedup(capped)
        batch == IF Len(token_ids) > MaxBatch THEN SubSeq(token_ids, 1, MaxBatch)
                 ELSE token_ids
        sent == Range(batch)
    IN IF token_ids # <<>> /\ cnt < limit
       THEN IF failAt = 1
            THEN [queue |-> capped, cnt |-> cnt,
                  calls |-> <<Call("sub", sent, FALSE)>>, failed |-> TRUE]
            ELSE [queue |-> Retain(capped, LAMBDA k : k \notin sent), cnt |-> cnt + 1,
                  calls |-> <<Call("sub", sent, TRUE)>>, failed |-> FALSE]
       ELSE [queue |-> capped, cnt |-> cnt, calls |-> <<>>, failed |-> FALSE]

\* PerKeyPhase with the churn test off by one (churn_count <= churn_limit).
PerKeyPhase_OffByOne(op, queue, cnt, limit, failAt) ==
    LET budget == IF cnt <= limit THEN limit - cnt + 1 ELSE 0
        n == Min(Len(queue), budget)
        fails == failAt >= 1 /\ failAt <= n
        issued == IF fails THEN failAt ELSE n
    IN [queue |-> DropFirst(queue, issued),
        cnt |-> IF fails THEN cnt + issued - 1 ELSE cnt + issued,
        calls |-> [i \in 1..issued |-> Call(op, {queue[i]}, ~(fails /\ i = issued))],
        failed |-> fails]

\* lines 122-128 and 133-139: one adaptor call per key, the key is taken off the
\* queue (remove(0)) before the call is made
PerKeyPhase(op, queue, cnt, limit, failAt) ==
    LET budget == IF cnt < limit THEN limit - cnt ELSE 0
        n == Min(Len(queue), budget)
        fails == failAt >= 1 /\ failAt <= n
        issued == IF fails THEN failAt ELSE n
    IN [queue |-> DropFirst(queue, issued),
        cnt |-> IF fails THEN cnt + issued - 1 ELSE cnt + issued,
        calls |-> [i \in 1..issued |-> Call(op, {queue[i]}, ~(fails /\ i = issued))],
        failed |-> fails]

AddPhase(venue, padd, cnt, limit, cap, failAt) ==
    IF venue = "polymarket"
    THEN PolymarketAddPhase(padd, cnt, limit, cap, failAt)
    ELSE PerKeyPhase("sub", padd, cnt, limit, failAt)

\* RunCycle with the two phases swapped: removes first, then adds.
RunCycle_RemovesFirst(venue, padd, prem, cnt, limit, cap, failAt) ==
    LET r == PerKeyPhase("unsub", prem, cnt, limit, failAt)
        a == AddPhase(venue, padd, r.cnt, limit, cap,
                      IF failAt > Len(r.calls) THEN failAt - Len(r.calls) ELSE 0)
    IN IF r.failed
       THEN [padd |-> padd, prem |-> r.queue, cnt |-> r.cnt,
             calls |-> r.calls, failed |-> TRUE]
       ELSE [padd |-> a.queue, prem |-> r.queue, cnt |-> a.cnt,
             calls |-> r.calls \o a.calls, failed |-> a.failed]

\* lines 80-141: adds first, then removes, unless the add phase returned Err
RunCycle(venue, padd, prem, cnt, limit, cap, failAt) ==
    LET a == AddPhase(venue, padd, cnt, limit, cap, failAt)
        r == PerKeyPhase("unsub", prem, a.cnt, limit,
                         IF failAt > Len(a.calls) THEN failAt - Len(a.calls) ELSE 0)
    IN IF a.failed
       THEN [padd |-> a.queue, prem |-> prem, cnt |-> a.cnt,
             calls |-> a.calls, failed |-> TRUE]
       ELSE [padd |-> a.queue, prem |-> r.queue, cnt |-> r.cnt,
             calls |-> a.calls \o r.calls, failed |-> r.failed]

\* The venue's subscription set after a sequence of adaptor calls.
RECURSIVE ApplyCalls(_, _)
ApplyCalls(subscribed, cs) ==
    IF cs = <<>> THEN subscribed
    ELSE LET c == Head(cs)
             next == IF ~c.ok THEN subscribed
                     ELSE IF c.op = "sub" THEN subscribed \cup c.keys
                     ELSE subscribed \ c.keys
         IN ApplyCalls(next, Tail(cs))

\* The keys passed to the adaptor by the calls of kind op.
KeysPassed(cs, op) == UNION {cs[i].keys : i \in {j \in 1..Len(cs) : cs[j].op = op}}

SubInit ==
    /\ venue_name \in VenueNames
    /\ churn_limit \in 0..MaxChurnLimit
    /\ max_subs \in 1..Cardinality(Keys)
    /\ current = {}
    /\ pending_add = <<>>
    /\ pending_remove = <<>>
    /\ last_churn = 0
    /\ churn_count = 0
    /\ loop_running = TRUE
    /\ remote = {}
    /\ now = 0
    /\ ticks = 0
    /\ call_times = <<>>
    /\ last_cycle = <<>>
    /\ last_update = [before |-> {}, target |-> {}, clean |-> TRUE,
                      subs |-> {}, unsubs |-> {}]
    /\ updates = 0

\* update_target that forgets to queue the removals.
UpdateTarget_NoRemove(target) ==
    /\ updates < MaxUpdates
    /\ \E to_add \in Orders(target \ current) : pending_add' = pending_add \o to_add
    /\ current' = target
    /\ last_update' = [before |-> current, target |-> target,
                       clean |-> pending_add = <<>> /\ pending_remove = <<>>,
                       subs |-> {}, unsubs |-> {}]
    /\ updates' = updates + 1
    /\ UNCHANGED <<venue_name, churn_limit, max_subs, pending_remove, last_churn,
                   churn_count, loop_running, remote, now, ticks, call_times,
                   last_cycle>>
    /\ UNCHANGED othersThanSub

SubIdle ==
    /\ venue_name = "kalshi"
    /\ churn_limit = 0
    /\ max_subs = 1
    /\ current = {}
    /\ pending_add = <<>>
    /\ pending_remove = <<>>
    /\ last_churn = 0
    /\ churn_count = 0
    /\ loop_running = TRUE
    /\ remote = {}
    /\ now = 0
    /\ ticks = 0
    /\ call_times = <<>>
    /\ last_cycle = <<>>
    /\ last_update = [before |-> {}, target |-> {}, clean |-> TRUE,
                      subs |-> {}, unsubs |-> {}]
    /\ updates = 0

\* update_target that queues every key of the target, subscribed or not.
UpdateTarget_NoDiff(target) ==
    /\ updates < MaxUpdates
    /\ \E to_add \in Orders(target), to_remove \in Orders(current \ target) :
          /\ pending_add' = pending_add \o to_add
          /\ pending_remove' = pending_remove \o to_remove
    /\ current' = target
    /\ last_update' = [before |-> current, target |-> target,
                       clean |-> pending_add = <<>> /\ pending_remove = <<>>,
                       subs |-> {}, unsubs |-> {}]
    /\ updates' = updates + 1
    /\ UNCHANGED <<venue_name, churn_limit, max_subs, last_churn, churn_count,
                   loop_running, remote, now, ticks, call_times, last_cycle>>
    /\ UNCHANGED othersThanSub

\* SubscriptionManager::update_target
UpdateTarget(target) ==
    /\ updates < MaxUpdates
    /\ \E to_add \in Orders(target \ current), to_remove \in Orders(current \ target) :
          /\ pending_add' = pending_add \o to_add
          /\ pending_remove' = pending_remove \o to_remove
    /\ current' = target
    /\ last_update' = [before |-> current, target |-> target,
                       clean |-> pending_add = <<>> /\ pending_remove = <<>>,
                       subs |-> {}, unsubs |-> {}]
    /\ updates' = updates + 1
    /\ UNCHANGED <<venue_name, churn_limit, max_subs, last_churn, churn_count,
                   loop_running, remote, now, ticks, call_times, last_cycle>>
    /\ UNCHANGED othersThanSub

\* One pass of start_processing_loop: process_pending, and break on Err.
ProcessPending(failAt) ==
    /\ loop_running
    /\ LET reset == now - last_churn >= ChurnWindowSecs
           cnt0 == IF reset THEN 0 ELSE churn_count
           res == RunCycle(venue_name, pending_add, pending_remove, cnt0,
                           churn_limit, max_subs, failAt)
       IN /\ failAt > 0 => res.failed
          /\ last_churn' = IF reset THEN now ELSE last_churn
          /\ churn_count' = res.cnt
          /\ pending_add' = res.padd
          /\ pending_remove' = res.prem
          /\ remote' = ApplyCalls(remote, res.calls)
          /\ call_times' = call_times \o [i \in 1..Len(res.calls) |-> now]
          /\ last_cycle' = res.calls
          /\ last_update' = [last_update EXCEPT
                                !.subs = @ \cup KeysPassed(res.calls, "sub"),
                                !.unsubs = @ \cup KeysPassed(res.calls, "unsub")]
          /\ loop_running' = ~res.failed
    /\ UNCHANGED <<venue_name, churn_limit, max_subs, current, now, ticks, updates>>
    /\ UNCHANGED othersThanSub

\* Time passes between two steps.
Tick(d) ==
    /\ ticks < MaxTicks
    /\ now' = now + d
    /\ ticks' = ticks + 1
    /\ UNCHANGED <<venue_name, churn_limit, max_subs, current, pending_add,
                   pending_remove, last_churn, churn_count, loop_running, remote,
                   call_times, last_cycle, last_update, updates>>
    /\ UNCHANGED othersThanSub

\* The targets the rotation loop passes: HOT \cup WARM, at most max_subs keys.
Targets == {T \in SUBSET Keys : Cardinality(T) <= max_subs}

SubNext ==
    \/ \E target \in Targets : UpdateTarget(target)
    \/ \E failAt \in 0..(MaxUpdates * Cardinality(Keys)) : ProcessPending(failAt)
    \/ \E d \in Delays : Tick(d)

(***************************************************************************)
(* The churn scenario: a per-call venue with the default churn limit whose *)
(* 30 subscribed keys are all replaced by 30 new ones.                     *)
(***************************************************************************)
OldTarget == 1..30
NewTarget == 31..60
ScenarioDelays == {ChurnWindowSecs \div 2, ChurnWindowSecs}

\* The manager right after update_target(NewTarget), called at the start of a
\* churn window while OldTarget is subscribed and nothing is pending.  The call
\* history starts with the change.
ChurnScenarioInit ==
    /\ venue_name = "kalshi"
    /\ churn_limit = DefaultChurnLimit
    /\ max_subs = DefaultMaxSubs
    /\ current = NewTarget
    /\ pending_add = SortSet(NewTarget)
    /\ pending_remove = SortSet(OldTarget)
    /\ last_churn = 0
    /\ churn_count = 0
    /\ loop_running = TRUE
    /\ remote = OldTarget
    /\ now = 0
    /\ ticks = 0
    /\ call_times = <<>>
    /\ last_cycle = <<>>
    /\ last_update = [before |-> OldTarget, target |-> NewTarget, clean |-> TRUE,
                      subs |-> {}, unsubs |-> {}]
    /\ updates = 1

ChurnScenarioNext ==
    \/ \E failAt \in 0..DefaultChurnLimit : ProcessPending(failAt)
    \/ \E d \in ScenarioDelays : Tick(d)

(***************************************************************************)
(* TimeBucket (timebucket.rs) and ParquetWriter (storage/parquet_writer.rs) *)
(***************************************************************************)
Venues == {"polymarket", "kalshi"}

\* ts_recv values, epoch milliseconds: 10:04:30, 10:04:50 and 10:05:30 of day 0.
Timestamps == {36270000, 36290000, 36330000}

\* TimeBucket::from_timestamp
FromTimestamp(ts_ms, bucket_minutes) ==
    LET minutes == ts_ms \div 60000
    IN [date |-> minutes \div 1440,
        hour |-> (minutes \div 60) % 24,
        minute |-> ((minutes % 60) \div bucket_minutes) * bucket_minutes,
        bucket_minutes |-> bucket_minutes]

\* Option<TimeBucket>::None
NoBucket == [date |-> -1, hour |-> 0, minute |-> 0, bucket_minutes |-> 0]

Buckets == {FromTimestamp(ts, BucketMinutes) : ts \in Timestamps}

NoRow == [id |-> 0, venue |-> "", ts |-> 0]

\* A file: absent, or the rows written to it so far and whether sink_parquet
\* ran to its end.
NoFile == [exists |-> FALSE, rows |-> <<>>, complete |-> FALSE]

File(rows, complete) == [exists |-> TRUE, rows |-> rows, complete |-> complete]

\* TempFile with the final name: the data would be written in place.
TempFile_InPlace(venue, bucket) == <<venue, bucket, "parquet">>

\* lines 132-133: temp_file and final_file of one venue and bucket
TempFile(venue, bucket) == <<venue, bucket, "parquet.tmp">>

FinalFile(venue, bucket) == <<venue, bucket, "parquet">>

FileNames == Venues \X Buckets \X {"parquet.tmp", "parquet"}

NoFlush == [state |-> "idle", bucket |-> NoBucket, todo |-> <<>>, step |-> "create"]

VenuesOf(rows) == {rows[i].venue : i \in 1..Len(rows)}

\* flush_internal, lines 85-100: the bucket to write under, the buffer drained
\* and grouped by venue; order is the iteration order of the HashMap.
BeginFlush(rows, bucket, order) ==
    [state |-> "run", bucket |-> bucket,
     todo |-> [i \in 1..Len(order) |->
                  [venue |-> order[i],
                   rows |-> SelectSeq(rows, LAMBDA r : r.venue = order[i])]],
     step |-> "create"]

\* The bucket to flush under: bucket_opt, or TimeBucket::from_now when None.
FlushBucket(bucket_opt, now_ms) ==
    IF bucket_opt = NoBucket THEN FromTimestamp(now_ms, BucketMinutes) ELSE bucket_opt

\* The clock readings from_now may see (read only when bucket_opt is None).
NowChoices == IF current_bucket = NoBucket THEN Timestamps ELSE {0}

\* The rollover flush under the bucket of the incoming row.
RolloverBucket_New(old_bucket, new_bucket) == new_bucket

\* line 63: the rollover flush is made under the writer's current bucket
RolloverBucket(old_bucket, new_bucket) == old_bucket

WriterIdle ==
    /\ flush_rows = 1
    /\ buffer = <<>>
    /\ current_bucket = NoBucket
    /\ buffer_lock = "free"
    /\ bucket_lock = "free"
    /\ wpc = "idle"
    /\ w_row = NoRow
    /\ tpc = "idle"
    /\ fl = NoFlush
    /\ files = [f \in FileNames |-> NoFile]
    /\ writes = 0
    /\ failed_paths = {}
    /\ replaced = {}
    /\ accepted = {}
    /\ flush_failed = FALSE

\* ParquetWriter::new
WriterInit ==
    /\ flush_rows \in 1..MaxFlushRows
    /\ buffer = <<>>
    /\ current_bucket = NoBucket
    /\ buffer_lock = "free"
    /\ bucket_lock = "free"
    /\ wpc = "idle"
    /\ w_row = NoRow
    /\ tpc = "idle"
    /\ fl = NoFlush
    /\ files = [f \in FileNames |-> NoFile]
    /\ writes = 0
    /\ failed_paths = {}
    /\ replaced = {}
    /\ accepted = {}
    /\ flush_failed = FALSE

\* write, line 53: a caller enters write(row)
WriteCall(venue, ts) ==
    /\ wpc = "idle"
    /\ writes < MaxWrites
    /\ w_row' = [id |-> writes + 1, venue |-> venue, ts |-> ts]
    /\ writes' = writes + 1
    /\ wpc' = "lock_bucket"
    /\ UNCHANGED <<flush_rows, buffer, current_bucket, buffer_lock, bucket_lock,
                   tpc, fl, files, failed_paths, replaced,
                   accepted, flush_failed>>
    /\ UNCHANGED othersThanWriter

\* write, lines 56-59: current_bucket.lock().await, then bucket_changed
WriteLockBucket ==
    /\ wpc = "lock_bucket"
    /\ bucket_lock = "free"
    /\ bucket_lock' = "write"
    /\ wpc' = IF current_bucket = NoBucket
                 \/ current_bucket # FromTimestamp(w_row.ts, BucketMinutes)
              THEN "lock_buffer_rollover" ELSE "lock_buffer_push"
    /\ UNCHANGED <<flush_rows, buffer, current_bucket, buffer_lock, w_row, tpc, fl,
                   files, writes, failed_paths, replaced,
                   accepted, flush_failed>>
    /\ UNCHANGED othersThanWriter

\* write, lines 61-65: buffer.lock().await; flush a non-empty buffer, else
\* adopt the new bucket at once
WriteRollover ==
    /\ wpc = "lock_buffer_rollover"
    /\ buffer_lock = "free"
    /\ IF buffer # <<>>
       THEN /\ \E order \in Orders(VenuesOf(buffer)), now_ms \in NowChoices :
                  fl' = BeginFlush(buffer,
                                   FlushBucket(RolloverBucket(current_bucket,
                                                   FromTimestamp(w_row.ts, BucketMinutes)),
                                               now_ms),
                                   order)
            /\ buffer' = <<>>
            /\ buffer_lock' = "write"
            /\ wpc' = "flush_rollover"
            /\ UNCHANGED current_bucket
       ELSE /\ current_bucket' = FromTimestamp(w_row.ts, BucketMinutes)
            /\ wpc' = "lock_buffer_push"
            /\ UNCHANGED <<buffer, buffer_lock, fl>>
    /\ UNCHANGED <<flush_rows, bucket_lock, w_row, tpc, files, writes, failed_paths, replaced,
                   accepted, flush_failed>>
    /\ UNCHANGED othersThanWriter

\* write, lines 63-66: the rollover flush returned; Err leaves write by `?`
WriteRolloverDone ==
    /\ wpc = "flush_rollover"
    /\ fl.state \in {"ok", "failed"}
    /\ IF fl.state = "ok"
       THEN /\ current_bucket' = FromTimestamp(w_row.ts, BucketMinutes)
            /\ wpc' = "lock_buffer_push"
            /\ UNCHANGED <<bucket_lock, w_row>>
       ELSE /\ wpc' = "idle"
            /\ bucket_lock' = "free"
            /\ w_row' = NoRow
            /\ UNCHANGED current_bucket
    /\ buffer_lock' = "free"
    /\ fl' = NoFlush
    /\ UNCHANGED <<flush_rows, buffer, tpc, files, writes, failed_paths, replaced,
                   accepted, flush_failed>>
    /\ UNCHANGED othersThanWriter

\* The size test with > for >=.
SizeLimitReached_Exceeded(len, limit) == len > limit

\* write, line 73: buffer.len() >= flush_rows
SizeLimitReached(len, limit) == len >= limit

\* write, lines 69-75: buffer.lock().await, push, flush when flush_rows is reached
WritePush ==
    /\ wpc = "lock_buffer_push"
    /\ buffer_lock = "free"
    /\ LET pushed == Append(buffer, w_row)
       IN IF SizeLimitReached(Len(pushed), flush_rows)
          THEN /\ \E order \in Orders(VenuesOf(pushed)), now_ms \in NowChoices :
                     fl' = BeginFlush(pushed, FlushBucket(current_bucket, now_ms), order)
               /\ buffer' = <<>>
               /\ buffer_lock' = "write"
               /\ wpc' = "flush_size"
               /\ UNCHANGED <<bucket_lock, w_row, accepted>>
          ELSE /\ buffer' = pushed
               /\ wpc' = "idle"
               /\ bucket_lock' = "free"
               /\ w_row' = NoRow
               /\ accepted' = accepted \cup {w_row.id}
               /\ UNCHANGED <<buffer_lock, fl>>
    /\ UNCHANGED <<flush_rows, current_bucket, tpc, files, writes, failed_paths, replaced,
                   flush_failed>>
    /\ UNCHANGED othersThanWriter

\* write, lines 74-77: the size flush returned, write returns Ok or Err
WriteSizeDone ==
    /\ wpc = "flush_size"
    /\ fl.state \in {"ok", "failed"}
    /\ wpc' = "idle"
    /\ w_row' = NoRow
    /\ buffer_lock' = "free"
    /\ bucket_lock' = "free"
    /\ fl' = NoFlush
    /\ accepted' = IF fl.state = "ok" THEN accepted \cup {w_row.id} ELSE accepted
    /\ UNCHANGED <<flush_rows, buffer, current_bucket, tpc, files, writes, failed_paths, replaced,
                   flush_failed>>
    /\ UNCHANGED othersThanWriter

\* periodic task, lines 38-40: tick, buffer.lock().await, buffer not empty
\* (an empty buffer releases the guard at once and changes nothing)
TimerTick ==
    /\ tpc = "idle"
    /\ buffer_lock = "free"
    /\ buffer # <<>>
    /\ buffer_lock' = "timer"
    /\ tpc' = "lock_bucket"
    /\ UNCHANGED <<flush_rows, buffer, current_bucket, bucket_lock, wpc, w_row, fl,
                   files, writes, failed_paths, replaced,
                   accepted, flush_failed>>
    /\ UNCHANGED othersThanWriter

\* periodic task, lines 41-42: current_bucket.lock().await.clone(), the guard is
\* dropped at the end of the statement, then flush_internal
TimerLockBucket ==
    /\ tpc = "lock_bucket"
    /\ bucket_lock = "free"
    /\ \E order \in Orders(VenuesOf(buffer)), now_ms \in NowChoices :
          fl' = BeginFlush(buffer, FlushBucket(current_bucket, now_ms), order)
    /\ buffer' = <<>>
    /\ tpc' = "flush"
    /\ UNCHANGED <<flush_rows, current_bucket, buffer_lock, bucket_lock, wpc, w_row,
                   files, writes, failed_paths, replaced,
                   accepted, flush_failed>>
    /\ UNCHANGED othersThanWriter

\* periodic task, lines 42-45: the flush returned (an Err is only logged)
TimerFlushDone ==
    /\ tpc = "flush"
    /\ fl.state \in {"ok", "failed"}
    /\ tpc' = "idle"
    /\ buffer_lock' = "free"
    /\ fl' = NoFlush
    /\ UNCHANGED <<flush_rows, buffer, current_bucket, bucket_lock, wpc, w_row,
                   files, writes, failed_paths, replaced,
                   accepted, flush_failed>>
    /\ UNCHANGED othersThanWriter

\* write_parquet_file, lines 129-183: create_dir_all, DataFrame::new and
\* File::create(temp_file); any Err leaves flush_internal by `?`
FlushCreate(ok) ==
    /\ fl.state = "run"
    /\ fl.step = "create"
    /\ LET g == Head(fl.todo)
       IN IF ok
          THEN /\ files' = [files EXCEPT ![TempFile(g.venue, fl.bucket)] = File(<<>>, FALSE)]
               /\ fl' = [fl EXCEPT !.step = "sink"]
          ELSE /\ fl' = [fl EXCEPT !.state = "failed"]
               /\ UNCHANGED files
    /\ flush_failed' = (flush_failed \/ ~ok)
    /\ UNCHANGED <<flush_rows, buffer, current_bucket, buffer_lock, bucket_lock,
                   wpc, w_row, tpc, writes, failed_paths, replaced, accepted>>
    /\ UNCHANGED othersThanWriter

\* write_parquet_file, lines 187-193: sink_parquet writes the rows to temp_file;
\* on Err the first n rows are in it
FlushSink(ok, n) ==
    /\ fl.state = "run"
    /\ fl.step = "sink"
    /\ LET g == Head(fl.todo)
       IN /\ n < Len(g.rows)
          /\ IF ok
             THEN /\ n = 0
                  /\ files' = [files EXCEPT ![TempFile(g.venue, fl.bucket)] = File(g.rows, TRUE)]
                  /\ fl' = [fl EXCEPT !.step = "rename"]
                  /\ UNCHANGED failed_paths
             ELSE /\ files' = [files EXCEPT ![TempFile(g.venue, fl.bucket)] =
                                                File(SubSeq(g.rows, 1, n), FALSE)]
                  /\ fl' = [fl EXCEPT !.state = "failed"]
                  /\ failed_paths' = failed_paths \cup {<<g.venue, fl.bucket>>}
    /\ flush_failed' = (flush_failed \/ ~ok)
    /\ UNCHANGED <<flush_rows, buffer, current_bucket, buffer_lock, bucket_lock,
                   wpc, w_row, tpc, writes, replaced, accepted>>
    /\ UNCHANGED othersThanWriter

\* A rename that leaves a file that is already at the final path.
RenameOver_KeepExisting(existing, temp) == IF existing.exists THEN existing ELSE temp

\* std::fs::rename, line 196: the file at the final path, if any, is replaced
RenameOver(existing, temp) == temp

\* write_parquet_file, lines 195-205: rename(temp_file, final_file); then the
\* next venue's rows (flush_internal, lines 103-107)
FlushRename(ok) ==
    /\ fl.state = "run"
    /\ fl.step = "rename"
    /\ LET g == Head(fl.todo)
           temp == TempFile(g.venue, fl.bucket)
           final == FinalFile(g.venue, fl.bucket)
       IN IF ok
          THEN /\ files' = [f \in FileNames |->
                               IF f = final THEN RenameOver(files[final], files[temp])
                               ELSE IF f = temp THEN NoFile
                               ELSE files[f]]
               /\ replaced' = IF files[final].exists
                               THEN replaced \cup {<<g.venue, fl.bucket>>}
                               ELSE replaced
               /\ fl' = [fl EXCEPT !.todo = Tail(fl.todo),
                                   !.step = "create",
                                   !.state = IF Tail(fl.todo) = <<>> THEN "ok" ELSE "run"]
               /\ UNCHANGED failed_paths
          ELSE /\ fl' = [fl EXCEPT !.state = "failed"]
               /\ failed_paths' = failed_paths \cup {<<g.venue, fl.bucket>>}
               /\ UNCHANGED <<files, replaced>>
    /\ flush_failed' = (flush_failed \/ ~ok)
    /\ UNCHANGED <<flush_rows, buffer, current_bucket, buffer_lock, bucket_lock,
                   wpc, w_row, tpc, writes, accepted>>
    /\ UNCHANGED othersThanWriter

WriterNext ==
    \/ \E venue \in Venues, ts \in Timestamps : WriteCall(venue, ts)
    \/ WriteLockBucket
    \/ WriteRollover
    \/ WriteRolloverDone
    \/ WritePush
    \/ WriteSizeDone
    \/ TimerTick
    \/ TimerLockBucket
    \/ TimerFlushDone
    \/ \E ok \in BOOLEAN : FlushCreate(ok)
    \/ \E ok \in BOOLEAN, n \in 0..MaxWrites : FlushSink(ok, n)
    \/ \E ok \in BOOLEAN : FlushRename(ok)

(***************************************************************************)
(* Scheduler (scheduler/scheduler.rs) and score_markets (scoring.rs).      *)
(***************************************************************************)
MarketIds == {"m1", "m2"}
Scores == {1, 2}
OutcomeLists == {<<>>, <<"yes">>, <<"yes", "no">>}
TokenLists == {<<>>, <<"t1">>, <<"t1", "t2">>}

\* The MarketInfo lines a universe file of the venue may hold.  A line carries
\* the score score_markets computes for it from close_ts, status and the stats.
MarketPool(venue) ==
    [market_id : MarketIds, score : Scores,
     outcome_ids : IF venue = "polymarket" THEN {<<"yes", "no">>} ELSE OutcomeLists,
     token_ids : IF venue = "polymarket" THEN TokenLists ELSE {<<>>}]

Universes(venue) ==
    UNION {[1..n -> MarketPool(venue)] : n \in 0..MaxMarkets}

\* max_subs values: the small ones, and one that makes hot_count 2.
MaxSubsChoices == (0..MaxSchedSubs) \cup {2 * HotDivisor}

\* scoring.rs line 54: the stable sort by score, descending.
RECURSIVE InsertByScore(_, _)
InsertByScore(sorted, m) ==
    IF sorted = <<>> THEN <<m>>
    ELSE IF Head(sorted).score < m.score THEN <<m>> \o sorted
    ELSE <<Head(sorted)>> \o InsertByScore(Tail(sorted), m)

RECURSIVE ScoreMarkets(_)
ScoreMarkets(ms) ==
    IF ms = <<>> THEN <<>>
    ELSE InsertByScore(ScoreMarkets(SubSeq(ms, 1, Len(ms) - 1)), ms[Len(ms)])

\* lines 53-56: for every score, the first market of the universe with its id
FindMarket(ms, id) == ms[CHOOSE i \in 1..Len(ms) :
                            ms[i].market_id = id /\ \A j \in 1..(i - 1) : ms[j].market_id # id]

ScoredMarkets(ms) ==
    LET scores == ScoreMarkets(ms)
    IN [i \in 1..Len(scores) |-> FindMarket(ms, scores[i].market_id)]

\* config.rs lines 31-32 and 93-95: VenueConfig.hot_count as serde fills it,
\* the configured value or the default
VenueHotCount(line) == IF line = <<>> THEN DefaultHotCount ELSE line[1]

\* The hot_count lines a venue configuration may have.
HotCountLines == {<<>>} \cup {<<n>> : n \in 1..MaxHotCount}

\* line 49
HotCount(max) == Max(1, max \div HotDivisor)

\* line 58
HotMarkets(scored, hot_count) == SubSeq(scored, 1, Min(hot_count, Len(scored)))

\* The WARM pool taken to be the whole scored list, HOT markets included.
RemainingMarkets_All(scored, hot_count) == scored

\* lines 58-59: what drain(0..hot_count) leaves
RemainingMarkets(scored, hot_count) == DropFirst(scored, Min(hot_count, Len(scored)))

\* WarmSelection that never advances the cursor.
WarmSelection_CursorStuck(remaining, warm_capacity, cursor) ==
    IF Len(remaining) > 0 /\ warm_capacity > 0
    THEN LET start == cursor % Len(remaining)
             n == Min(Len(remaining), warm_capacity)
         IN [selected |-> [i \in 1..n |-> remaining[((start + i - 1) % Len(remaining)) + 1]],
             cursor |-> cursor]
    ELSE [selected |-> <<>>, cursor |-> cursor]

\* lines 62-75: the rotation cursor over the remaining markets
WarmSelection(remaining, warm_capacity, cursor) ==
    IF Len(remaining) > 0 /\ warm_capacity > 0
    THEN LET start == cursor % Len(remaining)
             n == Min(Len(remaining), warm_capacity)
         IN [selected |-> [i \in 1..n |-> remaining[((start + i - 1) % Len(remaining)) + 1]],
             cursor |-> (start + n) % Len(remaining)]
    ELSE [selected |-> <<>>, cursor |-> cursor]

\* AddKeys that tests the cap after the insert instead of before it.
RECURSIVE AddKeys_CapAfterInsert(_, _, _)
AddKeys_CapAfterInsert(set, keys, cap) ==
    IF keys = <<>> THEN set
    ELSE LET grown == set \cup {Head(keys)}
         IN IF Cardinality(grown) >= cap + 1 THEN grown
            ELSE AddKeys_CapAfterInsert(grown, Tail(keys), cap)

\* lines 82-87 and 91-96: insert the keys in order until the set holds cap keys
RECURSIVE AddKeys(_, _, _)
AddKeys(set, keys, cap) ==
    IF keys = <<>> \/ Cardinality(set) >= cap THEN set
    ELSE AddKeys(set \cup {Head(keys)}, Tail(keys), cap)

\* lines 77-97: the feed keys of a market, (token_id, "") on the token venue
\* and (market_id, outcome_id) elsewhere
FeedKeys(venue, m) ==
    IF venue = "polymarket"
    THEN [i \in 1..Len(m.token_ids) |-> <<m.token_ids[i], "">>]
    ELSE [i \in 1..Len(m.outcome_ids) |-> <<m.market_id, m.outcome_ids[i]>>]

\* lines 100-102 and 110-112
RECURSIVE FillHot(_, _, _, _)
FillHot(venue, hot, ms, hot_count) ==
    IF ms = <<>> THEN hot
    ELSE FillHot(venue, AddKeys(hot, FeedKeys(venue, Head(ms)), hot_count), Tail(ms), hot_count)

\* lines 103-108 and 113-118
RECURSIVE FillWarm(_, _, _, _, _)
FillWarm(venue, hot, warm, ms, max) ==
    IF ms = <<>> \/ Cardinality(hot) + Cardinality(warm) >= max THEN warm
    ELSE FillWarm(venue, hot,
                  AddKeys(warm, FeedKeys(venue, Head(ms)), max - Cardinality(hot)),
                  Tail(ms), max)

\* lines 46-119: the (HOT, WARM) target sets and the new cursor
TargetSubscriptions(venue, max, ms, cursor) ==
    LET hot_count == HotCount(max)
        scored == ScoredMarkets(ms)
        hot_markets == HotMarkets(scored, hot_count)
        remaining == RemainingMarkets(scored, hot_count)
        warm_capacity == IF max > hot_count THEN max - hot_count ELSE 0
        sel == WarmSelection(remaining, warm_capacity, cursor)
        new_hot == FillHot(venue, {}, hot_markets, hot_count)
    IN [hot |-> new_hot,
        warm |-> FillWarm(venue, new_hot, {}, sel.selected, max),
        cursor |-> sel.cursor]

SchedIdle ==
    /\ sched_venue = "kalshi"
    /\ sched_max_subs = 0
    /\ hot_count_line = <<>>
    /\ markets = <<>>
    /\ rotation_cursor = 0
    /\ current_hot = {}
    /\ current_warm = {}
    /\ rotations = 0
    /\ warm_union = {}

\* Scheduler::new, with a venue configuration and a universe file
SchedInit ==
    /\ sched_venue \in VenueNames
    /\ sched_max_subs \in MaxSubsChoices
    /\ hot_count_line = <<>>
    /\ markets \in Universes(sched_venue)
    /\ rotation_cursor = 0
    /\ current_hot = {}
    /\ current_warm = {}
    /\ rotations = 0
    /\ warm_union = {}

\* Scheduler::get_target_subscriptions
GetTargetSubscriptions ==
    /\ rotations < MaxRotations
    /\ LET t == TargetSubscriptions(sched_venue, sched_max_subs, markets, rotation_cursor)
       IN /\ rotation_cursor' = t.cursor
          /\ current_hot' = t.hot
          /\ current_warm' = t.warm
          /\ warm_union' = warm_union \cup t.warm
    /\ rotations' = rotations + 1
    /\ UNCHANGED <<sched_venue, sched_max_subs, hot_count_line, markets>>
    /\ UNCHANGED othersThanSched

SchedNext == GetTargetSubscriptions

(***************************************************************************)
(* Rotation after rotation over one stable universe with stable scores.    *)
(***************************************************************************)
MarketName(i) == "m" \o ToString(i)

\* The i-th line of a universe whose lines have distinct market ids and
\* distinct tokens: n feed keys and the given score.
MarketLine(venue, i, score, n) ==
    [market_id |-> MarketName(i), score |-> score,
     outcome_ids |-> IF venue = "polymarket" THEN <<"yes", "no">>
                     ELSE SubSeq(<<"yes", "no">>, 1, n),
     token_ids |-> IF venue = "polymarket"
                   THEN [j \in 1..n |-> MarketName(i) \o "-" \o ToString(j)]
                   ELSE <<>>]

StableUniverses(venue) ==
    UNION {{[i \in 1..n |-> MarketLine(venue, i, a[i][1], a[i][2])] :
               a \in [1..n -> Scores \X (0..2)]} : n \in 0..MaxMarkets}

\* The universe of thirty markets with one feed key each.
ThirtyMarkets(venue) == [i \in 1..30 |-> MarketLine(venue, i, 1 + (i % 2), 1)]

\* Its venue configuration; get_target_subscriptions never reads hot_count.
ThirtyMarketsConfig == [max_subs |-> 10, hot_count |-> 2]

RotationInit ==
    /\ sched_venue \in VenueNames
    /\ \/ /\ sched_max_subs \in MaxSubsChoices
          /\ hot_count_line = <<>>
          /\ markets \in StableUniverses(sched_venue)
       \/ /\ sched_max_subs = ThirtyMarketsConfig.max_subs
          /\ hot_count_line = <<ThirtyMarketsConfig.hot_count>>
          /\ markets = ThirtyMarkets(sched_venue)
    /\ rotation_cursor = 0
    /\ current_hot = {}
    /\ current_warm = {}
    /\ rotations = 0
    /\ warm_union = {}

\* One more call of get_target_subscriptions by the rotation loop
\* (collector.rs line 159); the call counter stops at RotationHorizon.
Rotation ==
    /\ LET t == TargetSubscriptions(sched_venue, sched_max_subs, markets, rotation_cursor)
       IN /\ rotation_cursor' = t.cursor
          /\ current_hot' = t.hot
          /\ current_warm' = t.warm
          /\ warm_union' = warm_union \cup t.warm
    /\ rotations' = Min(rotations + 1, RotationHorizon)
    /\ UNCHANGED <<sched_venue, sched_max_subs, hot_count_line, markets>>
    /\ UNCHANGED othersThanSched

RotationNext == Rotation

\* Scheduler::new with a venue configuration that may set hot_count, and a
\* universe file of distinct markets
HotConfigInit ==
    /\ sched_venue \in VenueNames
    /\ sched_max_subs \in MaxSubsChoices
    /\ hot_count_line \in HotCountLines
    /\ markets \in StableUniverses(sched_venue)
    /\ rotation_cursor = 0
    /\ current_hot = {}
    /\ current_warm = {}
    /\ rotations = 0
    /\ warm_union = {}

(***************************************************************************)
(* SequenceTracker and WebSocketMetrics (collector/metrics.rs).            *)
(***************************************************************************)
BookKeys == {<<"m1", "yes">>, <<"m1", "no">>}
Sequences == 0..MaxSeq

\* SequenceTracker::new
SequenceTrackerNew == [last_sequence |-> 0, gaps_detected |-> 0, out_of_order |-> 0]

\* check_sequence that stores an out-of-order sequence as the last one.
CheckSequence_LastIsNewest(t, new_sequence) ==
    LET expected == t.last_sequence + 1
        gap_size == new_sequence - expected
    IN IF new_sequence < t.last_sequence
       THEN [t EXCEPT !.out_of_order = @ + 1, !.last_sequence = new_sequence]
       ELSE IF gap_size > 0
       THEN [t EXCEPT !.gaps_detected = @ + gap_size, !.last_sequence = new_sequence]
       ELSE [t EXCEPT !.last_sequence = new_sequence]

\* SequenceTracker::check_sequence
CheckSequence(t, new_sequence) ==
    LET expected == t.last_sequence + 1
        gap_size == new_sequence - expected
    IN IF new_sequence < t.last_sequence
       THEN [t EXCEPT !.out_of_order = @ + 1,
                      !.last_sequence = Max(new_sequence, t.last_sequence)]
       ELSE IF gap_size > 0
       THEN [t EXCEPT !.gaps_detected = @ + gap_size, !.last_sequence = new_sequence]
       ELSE [t EXCEPT !.last_sequence = new_sequence]

MetricsIdle ==
    /\ sequence_gaps = [k \in BookKeys |-> SequenceTrackerNew]
    /\ streams = [k \in BookKeys |-> <<>>]

\* WebSocketMetrics::new: a key's tracker is made by its first update
\* (entry(key).or_insert_with(SequenceTracker::new))
MetricsInit ==
    /\ sequence_gaps = [k \in BookKeys |-> SequenceTrackerNew]
    /\ streams = [k \in BookKeys |-> <<>>]

\* WebSocketMetrics::record_update_processed
RecordUpdateProcessed(key, sequence) ==
    /\ Len(streams[key]) < MaxStream
    /\ sequence_gaps' = [sequence_gaps EXCEPT ![key] = CheckSequence(@, sequence)]
    /\ streams' = [streams EXCEPT ![key] = Append(@, sequence)]
    /\ UNCHANGED othersThanMetrics

MetricsNext ==
    \E key \in BookKeys, sequence \in Sequences : RecordUpdateProcessed(key, sequence)

(***************************************************************************)
(* The collector of a venue whose feed keys are (market, outcome) pairs:   *)
(* BookStore (collector/book.rs), the feed-read task of Collector::run     *)
(* (collector/collector.rs) and the Snapshotter (collector/snapshotter.rs).*)
(* The bids and asks of an update are named by the update's sequence.      *)
(***************************************************************************)
\* No entry in BookStore.books
NoBook == [bids |-> -1, asks |-> -1, last_update_ts |-> -1, sequence |-> -1]

\* BookState::new: no levels, sequence 0
BookStateNew == [bids |-> 0, asks |-> 0, last_update_ts |-> 0, sequence |-> 0]

NoUpdate == [key |-> <<"", "">>, sequence |-> 0]

NoSnapshotRow == [key |-> <<"", "">>, seq |-> -1, bids |-> -1, asks |-> -1]

\* BookState::to_snapshot_row
ToSnapshotRow(key, book) ==
    [key |-> key, seq |-> book.sequence, bids |-> book.bids, asks |-> book.asks]

\* BookStore::keys
StoreKeys == {k \in BookKeys : book_store[k] # NoBook}

\* The highest sequence the feed has delivered for the key.
RECURSIVE Highest(_)
Highest(s) == IF s = <<>> THEN 0 ELSE Max(Head(s), Highest(Tail(s)))

\* The number of updates the feed has delivered for the keys.
RECURSIVE Delivered(_)
Delivered(S) ==
    IF S = {} THEN 0
    ELSE LET k == CHOOSE x \in S : TRUE
         IN Len(streams[k]) + Delivered(S \ {k})

\* What the feed may deliver next for a key: the next update, or once more an
\* update it delivered before (at-least-once delivery).
FeedSequences(key) == {Highest(streams[key]) + 1} \cup Range(streams[key])

\* The (HOT, WARM) pairs a caller may pass to update_sets; the sets may
\* overlap.
TierPairs == (SUBSET BookKeys) \X (SUBSET BookKeys)

\* A guard of the store's mutex that nobody waits for.
BookStoreLockFree_Ignored(lock) == TRUE

\* book_store.lock().await returns when no task holds the guard
BookStoreLockFree(lock) == lock = "free"

CollectorIdle ==
    /\ book_store = [k \in BookKeys |-> NoBook]
    /\ book_lock = "free"
    /\ fpc = "idle"
    /\ f_update = NoUpdate
    /\ hot_set = {}
    /\ warm_set = {}
    /\ next_snapshot = [k \in BookKeys |-> -1]
    /\ spc = "idle"
    /\ snap_at = 0
    /\ seen_hot = {}
    /\ seen_warm = {}
    /\ snap_todo = <<>>
    /\ snap_row = NoSnapshotRow
    /\ upc = "idle"
    /\ u_sets = <<{}, {}>>
    /\ clock = 0
    /\ snapshot_rows = [k \in BookKeys |-> <<>>]
    /\ installed = {<<{}, {}>>}
    /\ snap_ticks = 0
    /\ set_updates = 0
    /\ advances = 0
    /\ samples = [k \in BookKeys |-> <<>>]
    /\ hot_since = [k \in BookKeys |-> -1]

\* Collector::new: BookStore::new and Snapshotter::new
CollectorInit ==
    /\ book_store = [k \in BookKeys |-> NoBook]
    /\ book_lock = "free"
    /\ fpc = "idle"
    /\ f_update = NoUpdate
    /\ hot_set = {}
    /\ warm_set = {}
    /\ next_snapshot = [k \in BookKeys |-> -1]
    /\ spc = "idle"
    /\ snap_at = 0
    /\ seen_hot = {}
    /\ seen_warm = {}
    /\ snap_todo = <<>>
    /\ snap_row = NoSnapshotRow
    /\ upc = "idle"
    /\ u_sets = <<{}, {}>>
    /\ clock = 0
    /\ snapshot_rows = [k \in BookKeys |-> <<>>]
    /\ installed = {<<{}, {}>>}
    /\ snap_ticks = 0
    /\ set_updates = 0
    /\ advances = 0
    /\ samples = [k \in BookKeys |-> <<>>]
    /\ hot_since = [k \in BookKeys |-> -1]

feedVars == <<book_store, book_lock, fpc, f_update>>
snapVars == <<next_snapshot, spc, snap_at, seen_hot, seen_warm, snap_todo,
              snap_row, snapshot_rows, snap_ticks, samples>>
setsVars == <<hot_set, warm_set, upc, u_sets, installed, set_updates, hot_since>>

\* feed-read loop, collector.rs lines 98-111: receive_update returned an update;
\* the metrics record it
FeedReceive(key, sequence) ==
    /\ fpc = "idle"
    /\ Delivered(BookKeys) < MaxStream
    /\ f_update' = [key |-> key, sequence |-> sequence]
    /\ fpc' = "lock_store"
    /\ sequence_gaps' = [sequence_gaps EXCEPT ![key] = CheckSequence(@, sequence)]
    /\ streams' = [streams EXCEPT ![key] = Append(@, sequence)]
    /\ UNCHANGED <<book_store, book_lock, snapVars, setsVars, clock, advances>>
    /\ UNCHANGED othersThanCollector

\* lines 113-117: book_store.lock().await and get_or_create
FeedLockStore ==
    /\ fpc = "lock_store"
    /\ BookStoreLockFree(book_lock)
    /\ book_lock' = "feed"
    /\ book_store' = [book_store EXCEPT ![f_update.key] =
                         IF @ = NoBook THEN BookStateNew ELSE @]
    /\ fpc' = "set_bids"
    /\ UNCHANGED <<f_update, snapVars, setsVars, clock, advances, metricsVars>>
    /\ UNCHANGED othersThanCollector

\* BookState::update, line 28
FeedSetBids ==
    /\ fpc = "set_bids"
    /\ book_store' = [book_store EXCEPT ![f_update.key].bids = f_update.sequence]
    /\ fpc' = "set_asks"
    /\ UNCHANGED <<book_lock, f_update, snapVars, setsVars, clock, advances, metricsVars>>
    /\ UNCHANGED othersThanCollector

\* BookState::update, line 29
FeedSetAsks ==
    /\ fpc = "set_asks"
    /\ book_store' = [book_store EXCEPT ![f_update.key].asks = f_update.sequence]
    /\ fpc' = "set_sequence"
    /\ UNCHANGED <<book_lock, f_update, snapVars, setsVars, clock, advances, metricsVars>>
    /\ UNCHANGED othersThanCollector

\* A book that keeps the highest sequence it has seen.
UpdatedSequence_KeepHighest(old, seq) == Max(old, seq)

\* BookState::update, line 31: self.sequence = seq
UpdatedSequence(old, seq) == seq

\* BookState::update, lines 30-31, and the end of the match arm, where the
\* guard of the store is dropped
FeedSetSequence ==
    /\ fpc = "set_sequence"
    /\ book_store' = [book_store EXCEPT
                         ![f_update.key].last_update_ts = f_update.sequence,
                         ![f_update.key].sequence = UpdatedSequence(@, f_update.sequence)]
    /\ book_lock' = "free"
    /\ fpc' = "idle"
    /\ f_update' = NoUpdate
    /\ UNCHANGED <<snapVars, setsVars, clock, advances, metricsVars>>
    /\ UNCHANGED othersThanCollector

\* Since when the keys of a new HOT set have been in the HOT set.
HotSince(new_hot) ==
    [k \in BookKeys |-> IF k \notin new_hot THEN -1
                        ELSE IF k \in hot_set THEN hot_since[k]
                        ELSE clock]

\* Snapshotter::update_sets, line 85
UpdateSetsHot(pair) ==
    /\ upc = "idle"
    /\ set_updates < MaxSetUpdates
    /\ hot_set' = pair[1]
    /\ hot_since' = HotSince(pair[1])
    /\ u_sets' = pair
    /\ upc' = "set_warm"
    /\ installed' = installed \cup {pair}
    /\ set_updates' = set_updates + 1
    /\ UNCHANGED <<warm_set, feedVars, snapVars, clock, advances, metricsVars>>
    /\ UNCHANGED othersThanCollector

\* Snapshotter::update_sets, line 86
UpdateSetsWarm ==
    /\ upc = "set_warm"
    /\ warm_set' = u_sets[2]
    /\ upc' = "idle"
    /\ UNCHANGED <<hot_set, hot_since, u_sets, installed, set_updates, feedVars, snapVars,
                   clock, advances, metricsVars>>
    /\ UNCHANGED othersThanCollector

\* take_snapshots, lines 147-148: the instant of the tick and the HOT set
SnapReadHot ==
    /\ spc = "idle"
    /\ snap_ticks < MaxSnapTicks
    /\ snap_at' = clock
    /\ seen_hot' = hot_set
    /\ spc' = "read_warm"
    /\ snap_ticks' = snap_ticks + 1
    /\ UNCHANGED <<next_snapshot, seen_warm, snap_todo, snap_row, snapshot_rows, samples, feedVars,
                   setsVars, clock, advances, metricsVars>>
    /\ UNCHANGED othersThanCollector

\* take_snapshots, line 149
SnapReadWarm ==
    /\ spc = "read_warm"
    /\ seen_warm' = warm_set
    /\ spc' = "list_keys"
    /\ UNCHANGED <<next_snapshot, snap_at, seen_hot, snap_todo, snap_row, snapshot_rows, samples,
                   snap_ticks, feedVars, setsVars, clock, advances, metricsVars>>
    /\ UNCHANGED othersThanCollector

\* take_snapshots, lines 150-154: the keys of the store, in the order the
\* HashMap yields them
SnapListKeys(order) ==
    /\ spc = "list_keys"
    /\ BookStoreLockFree(book_lock)
    /\ order \in Orders(StoreKeys)
    /\ snap_todo' = order
    /\ spc' = "loop"
    /\ UNCHANGED <<next_snapshot, snap_at, seen_hot, seen_warm, snap_row, snapshot_rows, samples,
                   snap_ticks, feedVars, setsVars, clock, advances, metricsVars>>
    /\ UNCHANGED othersThanCollector

\* The interval of a key with the WARM set looked at first.
IntervalOf_WarmFirst(key) ==
    IF key \in seen_warm THEN SnapshotIntervalMsWarm
    ELSE IF key \in seen_hot THEN SnapshotIntervalMsHot
    ELSE 0

\* lines 181-187: the interval of a key, 0 when it is in neither set
IntervalOf(key) ==
    IF key \in seen_hot THEN SnapshotIntervalMsHot
    ELSE IF key \in seen_warm THEN SnapshotIntervalMsWarm
    ELSE 0

\* lines 189-192
ShouldSnapshot(key) == next_snapshot[key] = -1 \/ snap_at >= next_snapshot[key]

\* take_snapshots, lines 156-199: the next key; a key that is due is read from
\* the store under its mutex and turned into a row
SnapVisit ==
    /\ spc = "loop"
    /\ IF snap_todo = <<>>
       THEN /\ spc' = "idle"
            /\ UNCHANGED <<snap_todo, snap_row, snapshot_rows, samples>>
       ELSE LET key == Head(snap_todo)
            IN IF IntervalOf(key) = 0 \/ ~ShouldSnapshot(key)
               THEN /\ snap_todo' = Tail(snap_todo)
                    /\ UNCHANGED <<spc, snap_row, snapshot_rows, samples>>
               ELSE /\ BookStoreLockFree(book_lock)
                    /\ snap_row' = ToSnapshotRow(key, book_store[key])
                    /\ snapshot_rows' = [snapshot_rows EXCEPT ![key] = Append(@, snap_row')]
                    /\ samples' = [samples EXCEPT ![key] = Append(@,
                           [at |-> snap_at, hot |-> key \in seen_hot,
                            warm |-> key \in seen_warm,
                            interval |-> IntervalOf(key), ok |-> FALSE])]
                    /\ spc' = "write"
                    /\ UNCHANGED snap_todo
    /\ UNCHANGED <<next_snapshot, snap_at, seen_hot, seen_warm, snap_ticks, feedVars,
                   setsVars, clock, advances, metricsVars>>
    /\ UNCHANGED othersThanCollector

\* take_snapshots, lines 200-201: writer.write(row); Err ends the tick by `?`
SnapWrite(ok) ==
    /\ spc = "write"
    /\ IF ok
       THEN /\ next_snapshot' = [next_snapshot EXCEPT
                                    ![snap_row.key] = snap_at + IntervalOf(snap_row.key)]
            /\ snap_todo' = Tail(snap_todo)
            /\ spc' = "loop"
       ELSE /\ snap_todo' = <<>>
            /\ spc' = "idle"
            /\ UNCHANGED next_snapshot
    /\ snap_row' = NoSnapshotRow
    /\ samples' = [samples EXCEPT
                       ![snap_row.key][Len(samples[snap_row.key])].ok = ok]
    /\ UNCHANGED <<snap_at, seen_hot, seen_warm, snapshot_rows, snap_ticks, feedVars,
                   setsVars, clock, advances, metricsVars>>
    /\ UNCHANGED othersThanCollector

\* Time passes.
Advance(d) ==
    /\ advances < MaxAdvances
    /\ clock' = clock + d
    /\ advances' = advances + 1
    /\ UNCHANGED <<feedVars, snapVars, setsVars, metricsVars>>
    /\ UNCHANGED othersThanCollector

\* Every snapshot row was read from the store of its key.
CollectorRowsOfKey ==
    \A k \in BookKeys : \A i \in 1..Len(snapshot_rows[k]) : snapshot_rows[k][i].key = k

CollectorNext ==
    \/ \E key \in BookKeys : \E sequence \in FeedSequences(key) : FeedReceive(key, sequence)
    \/ FeedLockStore
    \/ FeedSetBids
    \/ FeedSetAsks
    \/ FeedSetSequence
    \/ \E pair \in TierPairs : UpdateSetsHot(pair)
    \/ UpdateSetsWarm
    \/ SnapReadHot
    \/ SnapReadWarm
    \/ \E order \in Orders(StoreKeys) : SnapListKeys(order)
    \/ SnapVisit
    \/ \E ok \in BOOLEAN : SnapWrite(ok)
    \/ \E d \in {SnapshotIntervalMsHot} : Advance(d)

(***************************************************************************)
(* One Scheduler shared by the collectors of two venues                    *)
(* (src/bins/surveillance_collect.rs): the rotation loop of every          *)
(* collector (collector/collector.rs) reads and writes the same fields.    *)
(***************************************************************************)
\* The universe file of a venue: three markets with one feed key each.
VenueUniverse(venue) == [i \in 1..3 |-> MarketLine(venue, i, 1 + (i % 2), 1)]

ClockSteps == {500, 1000}

NoRotation == [rotated |-> FALSE, cursor |-> 0, hot |-> {}, warm |-> {}, at |-> -1]

\* should_rotate with > for >=
ShouldRotate_Strict(venue) ==
    IF ~rotation_enabled THEN FALSE
    ELSE IF venue \notin DOMAIN rotation_period_secs THEN FALSE
    ELSE IF last_rotation # -1
         THEN (sched_now - last_rotation) \div 1000 > rotation_period_secs[venue]
         ELSE TRUE

\* Scheduler::should_rotate; elapsed().as_secs() drops the fraction
ShouldRotate(venue) ==
    IF ~rotation_enabled THEN FALSE
    ELSE IF venue \notin DOMAIN rotation_period_secs THEN FALSE
    ELSE IF last_rotation # -1
         THEN (sched_now - last_rotation) \div 1000 >= rotation_period_secs[venue]
         ELSE TRUE

SharedIdle ==
    /\ rotation_enabled = FALSE
    /\ rotation_period_secs = [v \in VenueNames |-> 0]
    /\ venue_max_subs = [v \in VenueNames |-> 0]
    /\ last_rotation = -1
    /\ sched_now = 0
    /\ rot_pc = [v \in VenueNames |-> "wait"]
    /\ own = [v \in VenueNames |-> NoRotation]
    /\ marked_at = -1
    /\ clock_steps = 0

\* main: one Scheduler::new for all collectors
SharedInit ==
    /\ rotation_enabled \in BOOLEAN
    /\ rotation_period_secs \in [VenueNames -> 0..MaxPeriodSecs]
    /\ venue_max_subs \in [VenueNames -> 2..MaxSchedSubs]
    /\ last_rotation = -1
    /\ sched_now = 0
    /\ rot_pc = [v \in VenueNames |-> "wait"]
    /\ own = [v \in VenueNames |-> NoRotation]
    /\ marked_at = -1
    /\ clock_steps = 0
    /\ sched_venue = "kalshi"
    /\ sched_max_subs = 0
    /\ hot_count_line = <<>>
    /\ markets = <<>>
    /\ rotation_cursor = 0
    /\ current_hot = {}
    /\ current_warm = {}
    /\ rotations = 0
    /\ warm_union = {}

\* rotation loop, collector.rs lines 154-159: should_rotate is true and the
\* loop calls get_target_subscriptions through the aliased &mut Scheduler
RotBegin(v) ==
    /\ rot_pc[v] = "wait"
    /\ rotations < MaxSharedRotations
    /\ ShouldRotate(v)
    /\ LET t == TargetSubscriptions(v, venue_max_subs[v], VenueUniverse(v), rotation_cursor)
       IN /\ rotation_cursor' = t.cursor
          /\ current_hot' = t.hot
          /\ current_warm' = t.warm
          /\ warm_union' = warm_union \cup t.warm
          /\ own' = [own EXCEPT ![v].cursor = t.cursor, ![v].hot = t.hot, ![v].warm = t.warm]
    /\ sched_venue' = v
    /\ sched_max_subs' = venue_max_subs[v]
    /\ markets' = VenueUniverse(v)
    /\ rotations' = rotations + 1
    /\ rot_pc' = [rot_pc EXCEPT ![v] = "rotating"]
    /\ UNCHANGED <<rotation_enabled, rotation_period_secs, venue_max_subs,
                   last_rotation, sched_now, marked_at, clock_steps, hot_count_line>>
    /\ UNCHANGED othersThanShared

\* rotation loop, lines 162-169: after update_sets and update_target have been
\* awaited, mark_rotated
RotMark(v) ==
    /\ rot_pc[v] = "rotating"
    /\ last_rotation' = sched_now
    /\ marked_at' = sched_now
    /\ own' = [own EXCEPT ![v].rotated = TRUE, ![v].at = sched_now]
    /\ rot_pc' = [rot_pc EXCEPT ![v] = "wait"]
    /\ UNCHANGED <<rotation_enabled, rotation_period_secs, venue_max_subs,
                   sched_now, clock_steps, schedVars>>
    /\ UNCHANGED othersThanShared

\* Time passes.
ClockStep(d) ==
    /\ clock_steps < MaxClockSteps
    /\ sched_now' = sched_now + d
    /\ clock_steps' = clock_steps + 1
    /\ UNCHANGED <<rotation_enabled, rotation_period_secs, venue_max_subs,
                   last_rotation, rot_pc, own, marked_at, schedVars>>
    /\ UNCHANGED othersThanShared

SharedNext ==
    \/ \E v \in VenueNames : RotBegin(v)
    \/ \E v \in VenueNames : RotMark(v)
    \/ \E d \in ClockSteps : ClockStep(d)

(***************************************************************************)
(* The snapshot task over rotations that move keys between the tiers: the  *)
(* collector after its first rotation step, when every key has a book and  *)
(* the first (HOT, WARM) pair is installed; the counters of the history    *)
(* start anew.                                                             *)
(***************************************************************************)
PromotionInit ==
    /\ book_store = [k \in BookKeys |->
                        [bids |-> 1, asks |-> 1, last_update_ts |-> 1, sequence |-> 1]]
    /\ book_lock = "free"
    /\ fpc = "idle"
    /\ f_update = NoUpdate
    /\ hot_set \in SUBSET BookKeys
    /\ warm_set \in SUBSET BookKeys
    /\ hot_since = [k \in BookKeys |-> IF k \in hot_set THEN 0 ELSE -1]
    /\ next_snapshot = [k \in BookKeys |-> -1]
    /\ spc = "idle"
    /\ snap_at = 0
    /\ seen_hot = {}
    /\ seen_warm = {}
    /\ snap_todo = <<>>
    /\ snap_row = NoSnapshotRow
    /\ upc = "idle"
    /\ u_sets = <<hot_set, warm_set>>
    /\ clock = 0
    /\ snapshot_rows = [k \in BookKeys |-> <<>>]
    /\ installed = {<<{}, {}>>, <<hot_set, warm_set>>}
    /\ snap_ticks = 0
    /\ set_updates = 0
    /\ advances = 0
    /\ samples = [k \in BookKeys |-> <<>>]
    /\ sequence_gaps = [k \in BookKeys |-> CheckSequence(SequenceTrackerNew, 1)]
    /\ streams = [k \in BookKeys |-> <<1>>]

\* The clock steps between the ticks looked at: one tick of the snapshot
\* loop (snapshotter.rs line 53), and a HOT interval and one tick.
PromotionSteps == {TickMs, SnapshotIntervalMsHot + TickMs}

PromotionNext ==
    \/ \E pair \in TierPairs : UpdateSetsHot(pair)
    \/ UpdateSetsWarm
    \/ SnapReadHot
    \/ SnapReadWarm
    \/ \E order \in Orders(StoreKeys) : SnapListKeys(order)
    \/ SnapVisit
    \/ \E ok \in BOOLEAN : SnapWrite(ok)
    \/ \E d \in PromotionSteps : Advance(d)

(***************************************************************************)
(* The main loop of Collector::run (collector/collector.rs lines 150-171)  *)
(* of one venue whose feed keys are (market, outcome) pairs, with the      *)
(* scheduler, the snapshotter's tier sets and the subscription manager it  *)
(* drives, and the subscription manager's processing loop beside it.       *)
(***************************************************************************)
LoopVenue == "kalshi"

LoopIdle ==
    /\ lpc = "tick"
    /\ l_hot = {}
    /\ l_warm = {}
    /\ loop_rotations = 0

\* A target with the HOT keys only.
LoopTarget_HotOnly(hot, warm) == hot

\* lines 165-166: target = hot, extended by warm
LoopTarget(hot, warm) == hot \cup warm

\* The universe files of the venue: up to MaxMarkets markets with equal
\* scores and the same number of outcomes each.
LoopUniverses ==
    {[i \in 1..n |-> MarketLine(LoopVenue, i, 1, k)] : n \in 0..MaxMarkets, k \in 1..2}

\* Collector::new and the start of Collector::run
LoopInit ==
    /\ LoopIdle
    /\ sched_venue = LoopVenue
    /\ sched_max_subs \in 2..MaxSchedSubs
    /\ hot_count_line = <<>>
    /\ markets \in LoopUniverses
    /\ rotation_cursor = 0
    /\ current_hot = {}
    /\ current_warm = {}
    /\ rotations = 0
    /\ warm_union = {}
    /\ rotation_enabled \in BOOLEAN
    /\ \E p \in 0..MaxPeriodSecs : rotation_period_secs = [v \in VenueNames |-> p]
    /\ venue_max_subs = [v \in VenueNames |-> sched_max_subs]
    /\ last_rotation = -1
    /\ sched_now = 0
    /\ rot_pc = [v \in VenueNames |-> "wait"]
    /\ own = [v \in VenueNames |-> NoRotation]
    /\ marked_at = -1
    /\ clock_steps = 0
    /\ venue_name = sched_venue
    /\ churn_limit \in 1..MaxChurnLimit
    /\ max_subs = sched_max_subs
    /\ current = {}
    /\ pending_add = <<>>
    /\ pending_remove = <<>>
    /\ last_churn = 0
    /\ churn_count = 0
    /\ loop_running = TRUE
    /\ remote = {}
    /\ now = 0
    /\ ticks = 0
    /\ call_times = <<>>
    /\ last_cycle = <<>>
    /\ last_update = [before |-> {}, target |-> {}, clean |-> TRUE,
                      subs |-> {}, unsubs |-> {}]
    /\ updates = 0
    /\ CollectorIdle

loopSchedFrame == <<sched_venue, sched_max_subs, hot_count_line, markets>>
loopSharedFrame == <<rotation_enabled, rotation_period_secs, venue_max_subs, rot_pc, own,
                     marked_at>>
loopSubFrame == <<venue_name, churn_limit, max_subs, last_churn, churn_count,
                  loop_running, remote, now, ticks, call_times, last_cycle>>
loopSetsFrame == <<book_store, book_lock, fpc, f_update, next_snapshot, spc, snap_at,
                   seen_hot, seen_warm, snap_todo, snap_row, upc, u_sets, clock,
                   snapshot_rows, installed, snap_ticks, set_updates, advances, samples>>

\* lines 152-159: a tick at which should_rotate is true; the loop calls
\* get_target_subscriptions
LoopRotate ==
    /\ lpc = "tick"
    /\ loop_rotations < MaxLoopRotations
    /\ ShouldRotate(sched_venue)
    /\ LET t == TargetSubscriptions(sched_venue, sched_max_subs, markets, rotation_cursor)
       IN /\ rotation_cursor' = t.cursor
          /\ current_hot' = t.hot
          /\ current_warm' = t.warm
          /\ warm_union' = warm_union \cup t.warm
          /\ l_hot' = t.hot
          /\ l_warm' = t.warm
    /\ rotations' = rotations + 1
    /\ loop_rotations' = loop_rotations + 1
    /\ lpc' = "update_sets_hot"
    /\ UNCHANGED <<loopSchedFrame, sharedVars, subVars, collectorVars>>
    /\ UNCHANGED othersThanLoop

\* line 162 and Snapshotter::update_sets, snapshotter.rs line 85
LoopUpdateSetsHot ==
    /\ lpc = "update_sets_hot"
    /\ hot_set' = l_hot
    /\ hot_since' = HotSince(l_hot)
    /\ lpc' = "update_sets_warm"
    /\ UNCHANGED <<warm_set, loopSetsFrame, l_hot, l_warm, loop_rotations,
                   schedVars, sharedVars, subVars>>
    /\ UNCHANGED othersThanLoop

\* Snapshotter::update_sets, snapshotter.rs line 86
LoopUpdateSetsWarm ==
    /\ lpc = "update_sets_warm"
    /\ warm_set' = l_warm
    /\ lpc' = "update_target"
    /\ UNCHANGED <<hot_set, hot_since, loopSetsFrame, l_hot, l_warm, loop_rotations,
                   schedVars, sharedVars, subVars>>
    /\ UNCHANGED othersThanLoop

\* lines 165-167 and SubscriptionManager::update_target
LoopUpdateTarget ==
    /\ lpc = "update_target"
    /\ LET target == LoopTarget(l_hot, l_warm)
       IN /\ \E to_add \in Orders(target \ current), to_remove \in Orders(current \ target) :
                /\ pending_add' = pending_add \o to_add
                /\ pending_remove' = pending_remove \o to_remove
          /\ current' = target
          /\ last_update' = [before |-> current, target |-> target,
                             clean |-> pending_add = <<>> /\ pending_remove = <<>>,
                             subs |-> {}, unsubs |-> {}]
    /\ updates' = updates + 1
    /\ lpc' = "mark"
    /\ UNCHANGED <<loopSubFrame, l_hot, l_warm, loop_rotations,
                   schedVars, sharedVars, collectorVars>>
    /\ UNCHANGED othersThanLoop

\* line 169: mark_rotated
LoopMarkRotated ==
    /\ lpc = "mark"
    /\ last_rotation' = sched_now
    /\ lpc' = "tick"
    /\ UNCHANGED <<loopSharedFrame, sched_now, clock_steps, l_hot, l_warm, loop_rotations,
                   schedVars, subVars, collectorVars>>
    /\ UNCHANGED othersThanLoop

\* Time passes.
LoopClock(d) ==
    /\ clock_steps < MaxClockSteps
    /\ sched_now' = sched_now + d
    /\ clock_steps' = clock_steps + 1
    /\ UNCHANGED <<loopSharedFrame, last_rotation, loopVars,
                   schedVars, subVars, collectorVars>>
    /\ UNCHANGED othersThanLoop

LoopNext ==
    \/ LoopRotate
    \/ LoopUpdateSetsHot
    \/ LoopUpdateSetsWarm
    \/ LoopUpdateTarget
    \/ LoopMarkRotated
    \/ \E d \in ClockSteps : LoopClock(d)
    \/ \E failAt \in 0..1 : ProcessPending(failAt)

(***************************************************************************)
(* The adaptors that make the sequence numbers themselves: the update      *)
(* generator of MockVenue (venue/mock.rs) and the CLOB message handler of  *)
(* PolymarketVenue (venue/polymarket.rs), with the feed-read loop that     *)
(* hands every update to the metrics.                                      *)
(***************************************************************************)
Adaptors == {"mock", "polymarket"}

AdaptorIdle ==
    /\ adaptor = "mock"
    /\ adaptor_subscribed = {}
    /\ mock_sequence = 1
    /\ market_sequences = [k \in BookKeys |-> 0]
    /\ message_queue = <<>>
    /\ generated = 0

\* MockVenue::new (mock.rs line 25: sequence starts at 1) and
\* PolymarketVenue::new (empty market_sequences), with some keys subscribed
AdaptorInit ==
    /\ adaptor \in Adaptors
    /\ adaptor_subscribed \in (SUBSET BookKeys) \ {{}}
    /\ mock_sequence = 1
    /\ market_sequences = [k \in BookKeys |-> 0]
    /\ message_queue = <<>>
    /\ generated = 0

\* mock.rs lines 38-51: the generator picks a subscribed key and takes the
\* next value of the venue's one counter
MockGenerate(key) ==
    /\ adaptor = "mock"
    /\ generated < MaxGenerated
    /\ key \in adaptor_subscribed
    /\ message_queue' = Append(message_queue, [key |-> key, sequence |-> mock_sequence])
    /\ mock_sequence' = mock_sequence + 1
    /\ generated' = generated + 1
    /\ UNCHANGED <<adaptor, adaptor_subscribed, market_sequences, metricsVars>>
    /\ UNCHANGED othersThanAdaptor

\* polymarket.rs lines 818-841: the message handler takes the next value of
\* the key's counter, which it makes with value 1 when the key has none
PolymarketGenerate(key) ==
    /\ adaptor = "polymarket"
    /\ generated < MaxGenerated
    /\ key \in adaptor_subscribed
    /\ LET counter == IF market_sequences[key] = 0 THEN 1 ELSE market_sequences[key]
       IN /\ message_queue' = Append(message_queue, [key |-> key, sequence |-> counter])
          /\ market_sequences' = [market_sequences EXCEPT ![key] = counter + 1]
    /\ generated' = generated + 1
    /\ UNCHANGED <<adaptor, adaptor_subscribed, mock_sequence, metricsVars>>
    /\ UNCHANGED othersThanAdaptor

\* receive_update (pop_front) and, in the feed-read loop, collector.rs lines
\* 99-111, record_update_processed
AdaptorDeliver ==
    /\ message_queue # <<>>
    /\ LET update == Head(message_queue)
       IN /\ sequence_gaps' = [sequence_gaps EXCEPT
                                  ![update.key] = CheckSequence(@, update.sequence)]
          /\ streams' = [streams EXCEPT ![update.key] = Append(@, update.sequence)]
    /\ message_queue' = Tail(message_queue)
    /\ UNCHANGED <<adaptor, adaptor_subscribed, mock_sequence, market_sequences, generated>>
    /\ UNCHANGED othersThanAdaptor

AdaptorNext ==
    \/ \E key \in BookKeys : MockGenerate(key)
    \/ \E key \in BookKeys : PolymarketGenerate(key)
    \/ AdaptorDeliver

(***************************************************************************)
(* SnapshotRow (schema.rs) as BookState::to_snapshot_row (collector/       *)
(* book.rs) builds it for the snapshotter.  Prices are whole numbers of    *)
(* half ticks, all even, so that a mid is a whole number; NaN is the one   *)
(* f64 that compares with nothing.                                         *)
(***************************************************************************)
\* f64::NAN
NaN == -1

\* The levels a feed update may carry; "NaN".parse::<f64>() is Ok(NaN).
Levels ==
    {[price |-> 2, size |-> 1], [price |-> 2, size |-> 2],
     [price |-> 4, size |-> 1], [price |-> NaN, size |-> 1]}

LevelLists == UNION {[1..n -> Levels] : n \in 0..MaxDepth}

\* a.partial_cmp(&b) == Some(Less)
PriceLess(a, b) == a # NaN /\ b # NaN /\ a < b

\* lines 47 and 53: is x ordered before y by the comparator of sort_by:
\* px[b].partial_cmp(&px[a]) for the bids, px[a].partial_cmp(&px[b]) for the
\* asks, Equal when partial_cmp is None
IsLess(descending, x, y) ==
    IF descending THEN PriceLess(y.price, x.price) ELSE PriceLess(x.price, y.price)

\* slice::sort_by on a short slice is an insertion sort: the new element moves
\* in front of every trailing element it is less than.
RECURSIVE InsertLevel(_, _, _)
InsertLevel(descending, sorted, x) ==
    IF sorted = <<>> THEN <<x>>
    ELSE LET last == sorted[Len(sorted)]
         IN IF IsLess(descending, x, last)
            THEN Append(InsertLevel(descending, SubSeq(sorted, 1, Len(sorted) - 1), x), last)
            ELSE Append(sorted, x)

RECURSIVE SortLevels(_, _)
SortLevels(descending, levels) ==
    IF levels = <<>> THEN <<>>
    ELSE InsertLevel(descending,
                     SortLevels(descending, SubSeq(levels, 1, Len(levels) - 1)),
                     levels[Len(levels)])

\* SnapshotRow::new, lines 45-81, for price and size lists of equal length
SnapshotRowNew(bid_levels, ask_levels) ==
    LET sorted_bids == SortLevels(TRUE, bid_levels)
        sorted_asks == SortLevels(FALSE, ask_levels)
        best_bid_px == IF sorted_bids = <<>> THEN NaN ELSE sorted_bids[1].price
        best_ask_px == IF sorted_asks = <<>> THEN NaN ELSE sorted_asks[1].price
    IN [made |-> TRUE,
        bid_levels |-> sorted_bids,
        ask_levels |-> sorted_asks,
        best_bid_px |-> best_bid_px,
        best_ask_px |-> best_ask_px,
        mid |-> IF best_bid_px # NaN /\ best_ask_px # NaN
                THEN (best_bid_px + best_ask_px) \div 2 ELSE NaN,
        spread |-> IF best_bid_px # NaN /\ best_ask_px # NaN
                   THEN best_ask_px - best_bid_px ELSE NaN,
        status |-> IF best_bid_px # NaN /\ best_ask_px # NaN THEN "ok"
                   ELSE IF best_bid_px # NaN \/ best_ask_px # NaN THEN "partial"
                   ELSE "empty"]

\* SnapshotRow::cap_to_top_k, lines 105-114; only the tests call it
CapToTopK(row, k) ==
    [row EXCEPT !.bid_levels = SubSeq(@, 1, Min(Len(@), k)),
                !.ask_levels = SubSeq(@, 1, Min(Len(@), k))]

\* BookState::to_snapshot_row
BookToSnapshotRow(bid_levels, ask_levels) == SnapshotRowNew(bid_levels, ask_levels)

NoMadeRow ==
    [made |-> FALSE, bid_levels |-> <<>>, ask_levels |-> <<>>, best_bid_px |-> NaN,
     best_ask_px |-> NaN, mid |-> NaN, spread |-> NaN, status |-> ""]

RowIdle ==
    /\ top_k = 1
    /\ book_bids = <<>>
    /\ book_asks = <<>>
    /\ made_row = NoMadeRow

\* A book as the last feed update left it (BookState::update stores the
\* levels as given) and the writer's configuration.
RowInit ==
    /\ top_k \in 1..MaxTopK
    /\ book_bids \in LevelLists
    /\ book_asks \in LevelLists
    /\ made_row = NoMadeRow

\* take_snapshots, snapshotter.rs lines 194-200: the row of the key is built
\* by to_snapshot_row and handed to writer.write as it is
TakeSnapshot ==
    /\ ~made_row.made
    /\ made_row' = BookToSnapshotRow(book_bids, book_asks)
    /\ UNCHANGED <<top_k, book_bids, book_asks>>
    /\ UNCHANGED othersThanRow

RowNext == TakeSnapshot

(***************************************************************************)
(* TimeBucket::from_timestamp (timebucket.rs) over pairs of timestamps     *)
(* around the end of a day, for every bucket_minutes up to the bound.      *)
(***************************************************************************)
\* The minutes 23:48 of day 0 to 00:03 of day 1, as minutes since the epoch.
TbMinutes == 1428..1443

\* The first and the last millisecond of each of these minutes.
TbTimestamps == {m * 60000 + o : m \in TbMinutes, o \in {0, 59999}}

NoBuckets == <<NoBucket, NoBucket>>

\* The first millisecond of the bucket: date, hour and minute, seconds zero.
BucketStartMs(b) == (b.date * 1440 + b.hour * 60 + b.minute) * 60000

\* ts lies in [bucket_start, bucket_start + bucket_minutes minutes).
InWindow(ts, b) ==
    /\ BucketStartMs(b) <= ts
    /\ ts < BucketStartMs(b) + b.bucket_minutes * 60000

BucketIdle ==
    /\ tb_ts = <<0, 0>>
    /\ tb_minutes = 1
    /\ tb_buckets = NoBuckets

BucketInit ==
    /\ tb_ts \in TbTimestamps \X TbTimestamps
    /\ tb_minutes \in 1..MaxBucketMinutes
    /\ tb_buckets = NoBuckets

\* ParquetWriter::write, parquet_writer.rs line 54, for two rows
ComputeBuckets ==
    /\ tb_buckets = NoBuckets
    /\ tb_buckets' = <<FromTimestamp(tb_ts[1], tb_minutes),
                       FromTimestamp(tb_ts[2], tb_minutes)>>
    /\ UNCHANGED <<tb_ts, tb_minutes>>
    /\ UNCHANGED othersThanBucket

BucketNext == ComputeBuckets

(***************************************************************************)
(* Specifications.                                                         *)
(***************************************************************************)
\* The subscription manager of one venue with its processing loop.
Init == SubInit /\ WriterIdle /\ SchedIdle /\ MetricsIdle /\ CollectorIdle /\ SharedIdle
    /\ RowIdle /\ BucketIdle
    /\ LoopIdle
    /\ AdaptorIdle

Spec == Init /\ [][SubNext]_vars

\* The shared writer, its callers and its periodic flush task.
WriterSpecInit == WriterInit /\ SubIdle /\ SchedIdle /\ MetricsIdle /\ CollectorIdle /\ SharedIdle
    /\ RowIdle /\ BucketIdle
    /\ LoopIdle
    /\ AdaptorIdle

WriterSpec == WriterSpecInit /\ [][WriterNext]_vars

\* The scheduler of one venue over one universe file.
SchedSpecInit == SchedInit /\ SubIdle /\ WriterIdle /\ MetricsIdle /\ CollectorIdle /\ SharedIdle
    /\ RowIdle /\ BucketIdle
    /\ LoopIdle
    /\ AdaptorIdle

SchedSpec == SchedSpecInit /\ [][SchedNext]_vars

\* The rotation loop calling the scheduler again and again.
RotationSpecInit == RotationInit /\ SubIdle /\ WriterIdle /\ MetricsIdle /\ CollectorIdle /\ SharedIdle
    /\ RowIdle /\ BucketIdle
    /\ LoopIdle
    /\ AdaptorIdle

RotationSpec == RotationSpecInit /\ [][RotationNext]_vars

\* The subscription manager draining the churn scenario.
ChurnScenarioSpecInit == ChurnScenarioInit /\ WriterIdle /\ SchedIdle /\ MetricsIdle /\ CollectorIdle /\ SharedIdle
    /\ RowIdle /\ BucketIdle
    /\ LoopIdle
    /\ AdaptorIdle

ChurnScenarioSpec == ChurnScenarioSpecInit /\ [][ChurnScenarioNext]_vars

\* The sequence trackers of one collector's metrics.
MetricsSpecInit == MetricsInit /\ SubIdle /\ WriterIdle /\ SchedIdle /\ CollectorIdle /\ SharedIdle
    /\ RowIdle /\ BucketIdle
    /\ LoopIdle
    /\ AdaptorIdle

MetricsSpec == MetricsSpecInit /\ [][MetricsNext]_vars

\* The feed-read task, the snapshot task and the caller of update_sets.
CollectorSpecInit == CollectorInit /\ MetricsInit /\ SubIdle /\ WriterIdle /\ SchedIdle /\ SharedIdle
    /\ RowIdle /\ BucketIdle
    /\ LoopIdle
    /\ AdaptorIdle

CollectorSpec == CollectorSpecInit /\ [][CollectorNext]_vars

\* Two collectors and the one Scheduler they share.
SharedSchedSpecInit ==
    SharedInit /\ SubIdle /\ WriterIdle /\ MetricsIdle /\ CollectorIdle
    /\ RowIdle /\ BucketIdle
    /\ LoopIdle
    /\ AdaptorIdle

SharedSchedSpec == SharedSchedSpecInit /\ [][SharedNext]_vars

\* The scheduler of a venue whose configuration may set hot_count.
HotConfigSpecInit ==
    HotConfigInit /\ SubIdle /\ WriterIdle /\ MetricsIdle /\ CollectorIdle /\ SharedIdle
    /\ RowIdle /\ BucketIdle
    /\ LoopIdle
    /\ AdaptorIdle

HotConfigSpec == HotConfigSpecInit /\ [][SchedNext]_vars

\* The main loop of one collector, from the scheduler to the snapshotter and
\* the subscription manager.
LoopSpecInit ==
    LoopInit /\ WriterIdle /\ MetricsIdle /\ RowIdle /\ BucketIdle /\ AdaptorIdle

LoopSpec == LoopSpecInit /\ [][LoopNext]_vars

\* An adaptor that numbers its updates itself, and the metrics behind it.
AdaptorSpecInit ==
    AdaptorInit /\ MetricsInit /\ SubIdle /\ WriterIdle /\ SchedIdle /\ CollectorIdle
    /\ SharedIdle /\ RowIdle /\ BucketIdle /\ LoopIdle

AdaptorSpec == AdaptorSpecInit /\ [][AdaptorNext]_vars

\* The snapshot task while rotations move keys between the tiers.
PromotionSpecInit ==
    PromotionInit /\ SubIdle /\ WriterIdle /\ SchedIdle /\ SharedIdle
    /\ RowIdle /\ BucketIdle /\ LoopIdle /\ AdaptorIdle

PromotionSpec == PromotionSpecInit /\ [][PromotionNext]_vars

\* One book and the row the snapshotter makes of it.
RowSpecInit ==
    RowInit /\ SubIdle /\ WriterIdle /\ SchedIdle /\ MetricsIdle /\ CollectorIdle
    /\ SharedIdle /\ BucketIdle
    /\ LoopIdle
    /\ AdaptorIdle

RowSpec == RowSpecInit /\ [][RowNext]_vars

\* The buckets of two timestamps.
BucketSpecInit ==
    BucketInit /\ SubIdle /\ WriterIdle /\ SchedIdle /\ MetricsIdle /\ CollectorIdle
    /\ SharedIdle /\ RowIdle
    /\ LoopIdle
    /\ AdaptorIdle

BucketSpec == BucketSpecInit /\ [][BucketNext]_vars

(***************************************************************************)
(* Claims about the subscription manager.                                  *)
(***************************************************************************)
\* The number of adaptor calls issued in the window [s, s + 60 s).
CallsInWindow(s) ==
    Cardinality({i \in 1..Len(call_times) :
                    call_times[i] >= s /\ call_times[i] < s + ChurnWindowSecs})

Drained == pending_add = <<>> /\ pending_remove = <<>>

\* C1 (as stated): in any 60-second window, wherever it starts, the number of
\* subscribe plus unsubscribe calls is at most the churn limit.
C1_AnyWindowWithinLimit ==
    \A i \in 1..Len(call_times) : CallsInWindow(call_times[i]) <= churn_limit

\* C1 (amended): the churn counter is reset at most once per 60 s, so a
\* 60-second window overlaps two counting windows and holds at most twice the
\* churn limit of adaptor calls.
C1_AnyWindowWithinTwiceLimit ==
    \A i \in 1..Len(call_times) : CallsInWindow(call_times[i]) <= 2 * churn_limit

\* A 60-second window that holds exactly twice the limit of calls.
C1_Witness ==
    /\ churn_limit >= 1
    /\ \E i \in 1..Len(call_times) : CallsInWindow(call_times[i]) = 2 * churn_limit

\* C2 (as stated): after any update_target(T) and a full drain of the queues,
\* the keys passed to subscribe are exactly T minus current_before and the
\* keys passed to unsubscribe exactly current_before minus T.
C2_DrainIssuesExactDiff ==
    (updates > 0 /\ Drained) =>
        /\ last_update.subs = last_update.target \ last_update.before
        /\ last_update.unsubs = last_update.before \ last_update.target

\* C2 (amended): the same, for an update_target(T) that found both pending
\* queues empty.
C2_CleanDrainIssuesExactDiff ==
    (updates > 0 /\ last_update.clean /\ Drained) =>
        /\ last_update.subs = last_update.target \ last_update.before
        /\ last_update.unsubs = last_update.before \ last_update.target

\* A drained update that found the queues empty and caused both kinds of call.
C2_Witness ==
    /\ updates > 0 /\ last_update.clean /\ Drained
    /\ last_update.subs # {} /\ last_update.unsubs # {}

\* C3 (as stated, its quiescent case): whenever both pending queues are empty
\* (and no adaptor call has failed) the venue's subscription set equals current.
C3_QuiescentRemoteIsCurrent ==
    (loop_running /\ Drained) => remote = current

\* C4: within one process_pending cycle every subscribe call comes before
\* every unsubscribe call.
C4_AddsBeforeRemoves ==
    \A i, j \in 1..Len(last_cycle) :
        (last_cycle[i].op = "unsub" /\ last_cycle[j].op = "sub") => j < i

\* A cycle that issued both a subscribe and an unsubscribe call.
C4_Witness ==
    /\ \E i \in 1..Len(last_cycle) : last_cycle[i].op = "sub"
    /\ \E i \in 1..Len(last_cycle) : last_cycle[i].op = "unsub"

\* C5 (as stated): when an adaptor call fails and halts the loop, the key of
\* the failed call is still in its pending queue.
C5_FailedKeyStillQueued ==
    ~loop_running =>
        LET f == last_cycle[Len(last_cycle)]
        IN f.keys \subseteq Range(IF f.op = "sub" THEN pending_add ELSE pending_remove)

(***************************************************************************)
(* Claims about the Parquet writer.                                        *)
(***************************************************************************)
\* C6 (as stated): after a failed flush every row of the buffer that was not
\* written to a published file is still in the buffer.
C6_FailedFlushKeepsRows ==
    fl.state = "failed" =>
        \A i \in 1..Len(fl.todo) : \A j \in 1..Len(fl.todo[i].rows) :
            fl.todo[i].rows[j] \in Range(buffer)

\* C7: at every instant a file at a final `.parquet` path is the complete,
\* non-empty output of one venue group of one flush; partial data is only
\* ever seen at the `.parquet.tmp` path.
C7_FinalFilesComplete ==
    \A f \in FileNames :
        (f[3] = "parquet" /\ files[f].exists) =>
            files[f].complete /\ files[f].rows # <<>>

\* A flush failed after its temp file was created, the temp file was left
\* behind, and a later flush published the final file of the same bucket.
C7_Witness ==
    \E p \in failed_paths : files[FinalFile(p[1], p[2])].exists

\* C8: the buffer only ever holds rows of the writer's current bucket, and a
\* published file of a bucket holds only rows whose ts_recv maps to that bucket.
C8_RowsInOwnBucket ==
    /\ \A i \in 1..Len(buffer) :
           FromTimestamp(buffer[i].ts, BucketMinutes) = current_bucket
    /\ \A f \in FileNames :
           (f[3] = "parquet" /\ files[f].exists) =>
               \A i \in 1..Len(files[f].rows) :
                   FromTimestamp(files[f].rows[i].ts, BucketMinutes) = f[2]

\* Rows written across bucket boundaries: a rollover flush has just published
\* the buffered rows under the old bucket, which is still the current one, and
\* one venue has a published file in each of two buckets.
C8_Witness ==
    /\ wpc = "flush_rollover" /\ fl.state = "ok"
    /\ current_bucket = fl.bucket
    /\ current_bucket # FromTimestamp(w_row.ts, BucketMinutes)
    /\ \E v \in Venues : \E b1, b2 \in Buckets :
           /\ b1 # b2
           /\ files[FinalFile(v, b1)].exists
           /\ files[FinalFile(v, b2)].exists

(***************************************************************************)
(* Claims about the scheduler.                                             *)
(***************************************************************************)
\* No market_id occurs on two lines of the universe, and on the token venue no
\* token id is listed by two markets.
UniverseWellFormed ==
    \A i, j \in 1..Len(markets) :
        i # j =>
            /\ markets[i].market_id # markets[j].market_id
            /\ sched_venue = "polymarket" =>
                   Range(markets[i].token_ids) \cap Range(markets[j].token_ids) = {}

\* C9 (as stated): for any max_subs the returned sets satisfy
\* |HOT| + |WARM| <= max_subs.
C9_WithinMaxSubs ==
    rotations > 0 =>
        Cardinality(current_hot) + Cardinality(current_warm) <= sched_max_subs

\* C9 (amended): the same for max_subs >= 1.
C9_WithinPositiveMaxSubs ==
    (rotations > 0 /\ sched_max_subs >= 1) =>
        Cardinality(current_hot) + Cardinality(current_warm) <= sched_max_subs

\* The cap is reached with both tiers in use.
C9_Witness ==
    /\ rotations > 0 /\ sched_max_subs >= 1
    /\ current_hot # {} /\ current_warm # {}
    /\ Cardinality(current_hot) + Cardinality(current_warm) = sched_max_subs

NonHotMarkets ==
    Range(RemainingMarkets(ScoredMarkets(markets), HotCount(sched_max_subs)))

\* The market has had a feed key in a returned WARM set.
InWarmUnion(m) == Range(FeedKeys(sched_venue, m)) \cap warm_union # {}

AllNonHotCovered ==
    \A m \in NonHotMarkets : FeedKeys(sched_venue, m) # <<>> => InWarmUnion(m)

\* C11: with a stable universe and stable scores, repeated calls eventually
\* place every non-HOT market that has a feed key into a returned WARM set.
\* The calls are a function of the cursor alone, so once the cursor is back at
\* its first value the calls repeat, and a market left out until then is left
\* out for ever: every non-HOT market must have been placed by that time.
\* Stated for universes with distinct ids and tokens and a max_subs that leaves
\* room for WARM markets.
C11_EveryNonHotMarketEventuallyWarm ==
    (/\ UniverseWellFormed
     /\ sched_max_subs > HotCount(sched_max_subs)
     /\ rotations >= 1 /\ rotation_cursor = 0)
        => AllNonHotCovered

ThirtyMarketsScenario ==
    markets = ThirtyMarkets(sched_venue) /\ sched_max_subs = ThirtyMarketsConfig.max_subs

\* C12 (as stated): for the universe of 30 markets with max_subs = 10 the
\* union of the WARM sets of three consecutive rotations covers all non-HOT
\* markets.
C12_ThreeRotationsCoverAll ==
    (ThirtyMarketsScenario /\ rotations = 3) => AllNonHotCovered

\* C12 (amended): three consecutive rotations return disjoint WARM sets of
\* max_subs - |HOT| keys each, too few for all non-HOT markets; the union over
\* four consecutive rotations covers all of them.
C12_FourRotationsCoverAll ==
    ThirtyMarketsScenario =>
        /\ (rotations >= 1 /\ rotations <= 3) =>
               /\ Cardinality(warm_union)
                     = rotations * (sched_max_subs - Cardinality(current_hot))
               /\ Cardinality(warm_union) < Cardinality(NonHotMarkets)
        /\ rotations >= 4 => AllNonHotCovered

\* Four rotations over the thirty markets have been made.
C12_Witness ==
    /\ ThirtyMarketsScenario /\ rotations = 4
    /\ AllNonHotCovered
    /\ current_hot # {} /\ current_hot \cap warm_union = {}

(***************************************************************************)
(* More claims about the subscription manager.                             *)
(***************************************************************************)
\* C19: update_target(T) called directly after update_target(T) has no effect.
\* The first call leaves current = T, so the second call is a step of
\* update_target whose target is the current set: it queues nothing and
\* leaves current, pending_add and pending_remove as they were.
C19_RepeatedUpdateNoEffect ==
    [][(updates' = updates + 1 /\ last_update'.target = current)
         => /\ current' = current
            /\ pending_add' = pending_add
            /\ pending_remove' = pending_remove]_vars

\* update_target(T) twice with nothing in between, T not empty: no adaptor call
\* was ever made, the second call found current = T, and the queue holds the
\* keys of T once.
C19_Witness ==
    /\ updates = 2 /\ ticks = 0 /\ call_times = <<>>
    /\ last_update.target # {}
    /\ last_update.before = last_update.target
    /\ Len(pending_add) = Cardinality(last_update.target)
    /\ pending_remove = <<>>

\* The adaptor calls issued before the instant t.
CallsBefore(t) == Cardinality({i \in 1..Len(call_times) : call_times[i] < t})

QueuedKeys == Len(pending_add) + Len(pending_remove)

\* C13 (as stated): with 30 adds and 30 removes queued on a per-call venue with
\* churn limit 20, at most 20 adaptor calls are issued during the first minute,
\* and both pending queues are empty by the end of minute 2.
C13_DrainedByEndOfMinuteTwo ==
    /\ CallsBefore(ChurnWindowSecs) <= churn_limit
    /\ (loop_running /\ now >= 2 * ChurnWindowSecs) => Drained

\* C13 (amended): at most 20 adaptor calls are issued in the first minute and
\* in every later one, the keys not yet passed to the adaptor are still queued,
\* and the queues are not empty before the third minute begins.
C13_DrainedInMinuteThree ==
    /\ CallsBefore(ChurnWindowSecs) <= churn_limit
    /\ Len(call_times) <= churn_limit * (1 + now \div ChurnWindowSecs)
    /\ loop_running =>
           QueuedKeys = Cardinality(OldTarget) + Cardinality(NewTarget) - Len(call_times)
    /\ Drained => now >= 2 * ChurnWindowSecs

\* Twenty calls in each of three minutes have emptied both queues.
C13_Witness ==
    /\ loop_running /\ Drained
    /\ now = 2 * ChurnWindowSecs
    /\ CallsBefore(ChurnWindowSecs) = churn_limit
    /\ CallsBefore(2 * ChurnWindowSecs) = 2 * churn_limit
    /\ Len(call_times) = 3 * churn_limit
    /\ remote = NewTarget

(***************************************************************************)
(* Claims about the sequence tracker.                                      *)
(***************************************************************************)
\* The sum over i of max(0, s[i] - s[i-1] - 1), with 0 before the first.
RECURSIVE GapSumOverPredecessor(_, _)
GapSumOverPredecessor(prev, s) ==
    IF s = <<>> THEN 0
    ELSE Max(0, Head(s) - prev - 1) + GapSumOverPredecessor(Head(s), Tail(s))

\* The sum over i of max(0, s[i] - m[i-1] - 1), m[i-1] being the largest
\* sequence received before s[i] (0 before the first).
RECURSIVE GapSumOverMaximum(_, _)
GapSumOverMaximum(highest, s) ==
    IF s = <<>> THEN 0
    ELSE Max(0, Head(s) - highest - 1)
         + GapSumOverMaximum(Max(highest, Head(s)), Tail(s))

\* C20 (as stated): the gap total of a key is the sum of
\* max(0, s[i] - s[i-1] - 1) over the sequences received for it, s[i-1] being
\* the sequence received immediately before s[i].
C20_GapTotalOverPredecessor ==
    \A k \in BookKeys :
        sequence_gaps[k].gaps_detected = GapSumOverPredecessor(0, streams[k])

\* C20 (amended): the gap total is the sum of max(0, s[i] - m[i-1] - 1), where
\* m[i-1] is the largest sequence received before s[i].
C20_GapTotalOverMaximum ==
    \A k \in BookKeys :
        sequence_gaps[k].gaps_detected = GapSumOverMaximum(0, streams[k])

\* A stream with a gap, an out-of-order sequence and a sequence after it that
\* lies above the out-of-order one.
C20_Witness ==
    \E k \in BookKeys :
        /\ Len(streams[k]) = 3
        /\ streams[k][2] < streams[k][1]
        /\ streams[k][3] > streams[k][2] + 1
        /\ sequence_gaps[k].gaps_detected > 0
        /\ sequence_gaps[k].out_of_order = 1

\* C14: when the snapshotter has sampled a key twice, the later row's seq is
\* greater than or equal to the earlier row's, whatever stream the feed
\* delivers for the key, replays included.
C14_SnapshotSeqMonotonic ==
    \A k \in BookKeys :
        \A i, j \in 1..Len(snapshot_rows[k]) :
            i < j => snapshot_rows[k][i].seq <= snapshot_rows[k][j].seq

\* The tick has read both tier sets.
TickHasReadSets == spc \in {"list_keys", "loop", "write"}

\* C15: the HOT and WARM sets a snapshot tick works with are a pair that was
\* passed to update_sets together (or the initial pair), never the HOT set of
\* one call with the WARM set of another.
C15_TickSeesOnePair ==
    TickHasReadSets => <<seen_hot, seen_warm>> \in installed

\* C16: under every interleaving of the feed-read task and the snapshot task,
\* the seq, bids and asks of every snapshot row are those of one feed update
\* that was delivered for the row's key.
C16_RowIsOneUpdate ==
    \A k \in BookKeys :
        \A i \in 1..Len(snapshot_rows[k]) :
            LET row == snapshot_rows[k][i]
            IN /\ row.bids = row.seq
               /\ row.asks = row.seq
               /\ row.seq \in Range(streams[k])

\* The snapshot task holds a row of a key while the feed-read task is inside
\* the update of the same key with a different update.
C16_Witness ==
    /\ spc = "write"
    /\ book_lock = "feed"
    /\ fpc \in {"set_bids", "set_asks", "set_sequence"}
    /\ f_update.key = snap_row.key
    /\ f_update.sequence # snap_row.seq
    /\ snap_row.seq >= 1

\* C17: the scheduler state of a venue is written by that venue's rotation
\* only: a venue that has not rotated yet is still due (should_rotate is
\* true when rotation is enabled), and a venue that has rotated finds the
\* last rotation instant, the cursor and the HOT and WARM sets its own
\* rotation left, whatever the other venue's collector did meanwhile.
C17_SchedulerStatePerVenue ==
    \A v \in VenueNames :
        rot_pc[v] = "wait" =>
            /\ (rotation_enabled /\ ~own[v].rotated) => ShouldRotate(v)
            /\ own[v].rotated =>
                   /\ last_rotation = own[v].at
                   /\ rotation_cursor = own[v].cursor
                   /\ current_hot = own[v].hot
                   /\ current_warm = own[v].warm

\* C18: should_rotate is true exactly when rotation is enabled and either
\* mark_rotated was never called or at least rotation_period_secs seconds
\* have passed since the last call; so after mark_rotated with a positive
\* period it is false until the period has passed.
C18_ShouldRotateIffDue ==
    \A v \in VenueNames :
        ShouldRotate(v) <=>
            /\ rotation_enabled
            /\ \/ marked_at = -1
               \/ sched_now - marked_at >= rotation_period_secs[v] * 1000

\* A rotation was marked and exactly the period of a venue, more than zero,
\* has passed since; for the other venue's longer period it has not.
C18_Witness ==
    /\ rotation_enabled
    /\ marked_at # -1
    /\ \E v, w \in VenueNames :
        /\ rotation_period_secs[v] > 0
        /\ sched_now - marked_at = rotation_period_secs[v] * 1000
        /\ ShouldRotate(v)
        /\ rotation_period_secs[w] > rotation_period_secs[v]
        /\ ~ShouldRotate(w)

\* The tracker of key k has received updates and now receives one whose
\* sequence is at most its last_sequence.
ReceivesLateOrDuplicate(k) ==
    /\ streams[k] # <<>>
    /\ Len(streams'[k]) = Len(streams[k]) + 1
    /\ streams'[k][Len(streams'[k])] <= sequence_gaps[k].last_sequence

\* C21: a sequence s <= last (late, or a duplicate of the last one) adds one
\* to the out-of-order count, adds no gap, and leaves last = max(last, s).
C21_LateOrDuplicateCounted ==
    [][\A k \in BookKeys :
          ReceivesLateOrDuplicate(k) =>
              /\ sequence_gaps'[k].out_of_order = sequence_gaps[k].out_of_order + 1
              /\ sequence_gaps'[k].gaps_detected = sequence_gaps[k].gaps_detected
              /\ sequence_gaps'[k].last_sequence = sequence_gaps[k].last_sequence]_vars

InTierAndDue(key) == IntervalOf(key) # 0 /\ ShouldSnapshot(key)

\* The tick hands a row of the key to the writer in this step.
SampledNow(key) == Len(samples'[key]) = Len(samples[key]) + 1

\* The successful samples of the key so far.
SuccessfulSamples(key) == {i \in 1..Len(samples[key]) : samples[key][i].ok}

\* C23: a key is sampled at a tick iff it is in a tier and its next sample is
\* due (or it has no entry): the key the tick comes to is sampled exactly
\* then, and the tick does not end while a key of its list that is in a tier
\* and due is still waiting; and a key sampled successfully at t with
\* interval d is not sampled again at a tick before t + d.
C23_SampledIffInTierAndDue ==
    [][/\ (spc = "loop" /\ snap_todo # <<>> /\ <<spc, snap_todo>>' # <<spc, snap_todo>>) =>
             (SampledNow(Head(snap_todo)) <=> InTierAndDue(Head(snap_todo)))
       /\ (spc # "idle" /\ spc' = "idle") =>
             \A i \in 2..Len(snap_todo) : ~InTierAndDue(snap_todo[i])
       /\ \A k \in BookKeys :
             SampledNow(k) =>
                 \A i \in SuccessfulSamples(k) :
                     snap_at >= samples[k][i].at + samples[k][i].interval]_vars

\* The periodic task holds the buffer and waits for the bucket's mutex, which
\* a write call holds while it waits for the buffer: neither goes on.
TimerBlocked ==
    /\ tpc = "lock_bucket"
    /\ bucket_lock = "write"
    /\ wpc \in {"lock_buffer_rollover", "lock_buffer_push"}

\* C24: the periodic flush task that finds rows in the buffer writes them to
\* their bucket's file and leaves the buffer empty: it is never blocked for
\* ever, and when its flush returns every venue group it took from the
\* buffer has been published and the buffer is empty.
C24_TimerFlushWritesBuffer ==
    [][/\ ~TimerBlocked'
       /\ (tpc = "flush" /\ tpc' = "idle") => (fl.todo = <<>> /\ buffer' = <<>>)]_vars

\* A write call returns Ok in this step: after the push without a flush, or
\* after a size flush that succeeded.
WriteReturnsOk ==
    /\ wpc' = "idle"
    /\ \/ wpc = "lock_buffer_push"
       \/ wpc = "flush_size" /\ fl.state = "ok"

\* C25: after every write call that returns Ok the buffer holds fewer than
\* flush_rows rows.
C25_BufferBelowFlushRows ==
    [][WriteReturnsOk => Len(buffer') < flush_rows]_vars

\* With flush_rows = 2 a second row of the same venue and bucket brought the
\* buffer to flush_rows rows; the write flushed both to one file and returned.
C25_Witness ==
    /\ flush_rows = 2
    /\ wpc = "idle"
    /\ buffer = <<>>
    /\ \E f \in FileNames : f[3] = "parquet" /\ Len(files[f].rows) = 2

\* C26: when a flush publishes the rows of a venue and bucket, the file at the
\* final path holds exactly the rows of this flush afterwards, also when an
\* earlier flush had published a file of the same venue and bucket.
C26_LaterFlushReplacesFile ==
    [][(fl.state = "run" /\ fl.step = "rename" /\ fl'.step = "create") =>
           LET g == Head(fl.todo)
           IN files'[FinalFile(g.venue, fl.bucket)] = File(g.rows, TRUE)]_vars

\* A second flush of one venue and bucket has replaced the file of the
\* first: the published file holds a later row and not the first one.
C26_Witness ==
    \E p \in replaced :
        LET f == files[FinalFile(p[1], p[2])]
        IN /\ f.exists
           /\ \A i \in 1..Len(f.rows) : f.rows[i].id > 1
           /\ fl.state \in {"idle", "ok"}

(***************************************************************************)
(* Claims about SnapshotRow and TimeBucket.                                *)
(***************************************************************************)
\* C27: every row the snapshotter hands to the writer has at most top_k bid
\* levels and at most top_k ask levels, whatever the depth of the book.
C27_RowCappedToTopK ==
    made_row.made =>
        /\ Len(made_row.bid_levels) <= top_k
        /\ Len(made_row.ask_levels) <= top_k

\* C28: status is ok iff both sides of the input are non-empty, and then
\* mid = (best_bid + best_ask) / 2 and spread = best_ask - best_bid; with
\* one non-empty side it is partial, with none empty, and in both cases mid
\* and spread are NaN.
C28_StatusByEmptiness ==
    made_row.made =>
        LET both == book_bids # <<>> /\ book_asks # <<>>
            none == book_bids = <<>> /\ book_asks = <<>>
        IN /\ made_row.status = "ok" <=> both
           /\ both => /\ made_row.mid = (made_row.best_bid_px + made_row.best_ask_px) \div 2
                      /\ made_row.spread = made_row.best_ask_px - made_row.best_bid_px
                      /\ made_row.mid # NaN
           /\ (~both /\ ~none) => /\ made_row.status = "partial"
                                  /\ made_row.mid = NaN /\ made_row.spread = NaN
           /\ none => /\ made_row.status = "empty"
                      /\ made_row.mid = NaN /\ made_row.spread = NaN

\* No level of the list is followed by a level that the order puts first.
InPriceOrder(descending, levels) ==
    \A i, j \in 1..Len(levels) : i < j => ~IsLess(descending, levels[j], levels[i])

\* The levels of one price, in the order of the list.
LevelsAt(price, levels) == SelectSeq(levels, LAMBDA l : l.price = price)

\* The output holds the levels of the input, those of equal price in the
\* order of the input.
StablePermutation(input, output) ==
    /\ Len(output) = Len(input)
    /\ \A l \in Levels : LevelsAt(l.price, output) = LevelsAt(l.price, input)

\* C29: for every input the bids of the row are in non-increasing and the
\* asks in non-decreasing price order, every output level is an input level
\* with its own size, and levels of equal price keep their input order.
C29_SortedStablePermutation ==
    made_row.made =>
        /\ InPriceOrder(TRUE, made_row.bid_levels)
        /\ InPriceOrder(FALSE, made_row.ask_levels)
        /\ StablePermutation(book_bids, made_row.bid_levels)
        /\ StablePermutation(book_asks, made_row.ask_levels)

\* C30: the minute of the bucket is floor(minute / bucket_minutes) *
\* bucket_minutes, and two timestamps have equal buckets exactly when the
\* second lies in the window [bucket_start, bucket_start + bucket_minutes
\* minutes) of the first.
C30_SameWindowSameBucket ==
    tb_buckets # NoBuckets =>
        /\ tb_buckets[1].minute =
               (((tb_ts[1] \div 60000) % 60) \div tb_minutes) * tb_minutes
        /\ InWindow(tb_ts[2], tb_buckets[1]) <=> tb_buckets[1] = tb_buckets[2]

(***************************************************************************)
(* C31                                                                     *)
(***************************************************************************)
\* The hot_count the claim names: the configured one when the configuration
\* has a hot_count line, max(1, max_subs / 10) otherwise.
ClaimedHotCount ==
    IF hot_count_line # <<>> THEN VenueHotCount(hot_count_line) ELSE HotCount(sched_max_subs)

\* C31: after get_target_subscriptions the HOT set is made of the feed keys
\* of the top hot_count markets by score, added market after market until HOT
\* holds hot_count keys, where hot_count is the configured hot_count when the
\* venue configuration gives one and max(1, max_subs / 10) otherwise.
C31_HotPoolIsTopHotCount ==
    rotations > 0 =>
        current_hot = FillHot(sched_venue, {},
                              HotMarkets(ScoredMarkets(markets), ClaimedHotCount),
                              ClaimedHotCount)

(***************************************************************************)
(* C32                                                                     *)
(***************************************************************************)
\* The book the last update received for the key leaves: no entry before the
\* first update.
LastReceivedBook(key) ==
    IF streams[key] = <<>> THEN NoBook
    ELSE LET last == streams[key][Len(streams[key])]
         IN [bids |-> last, asks |-> last, last_update_ts |-> last, sequence |-> last]

\* C32: whenever the feed-read loop is not in the middle of applying an
\* update to a key, the BookState of that key holds the bids, asks and
\* sequence of the last update received for the key (no entry when none was
\* received); in particular applying an update to one key changes no other
\* key's BookState.
C32_BookHoldsLastUpdate ==
    \A k \in BookKeys :
        (fpc = "idle" \/ k # f_update.key) => book_store[k] = LastReceivedBook(k)

\* Three updates have been applied: two of one key, one after the other, and
\* one of another key.
C32_Witness ==
    /\ fpc = "idle"
    /\ \E k1, k2 \in BookKeys :
          /\ k1 # k2
          /\ streams[k1] = <<1, 2>>
          /\ Len(streams[k2]) = 1
          /\ book_store[k1].sequence = 2
          /\ book_store[k2].sequence = 1

(***************************************************************************)
(* C33                                                                     *)
(***************************************************************************)
\* C33: a rotation step of the main loop pushes the computed (HOT, WARM) to
\* the snapshotter, then HOT \cup WARM to the subscription manager, and marks
\* the rotation last: the snapshotter's sets change only at its update_sets
\* step, the subscription manager's current set only at the update_target
\* step, and mark_rotated runs when both hold what was computed; whenever the
\* loop is between rotation steps the snapshotter's HOT \cup WARM equals the
\* subscription manager's current set, and between rotation steps neither
\* changes.
C33_RotationStepPushesBoth ==
    /\ [](lpc = "tick" => hot_set \cup warm_set = current)
    /\ [][/\ hot_set' # hot_set => lpc = "update_sets_hot"
          /\ warm_set' # warm_set => lpc = "update_sets_warm"
          /\ current' # current => lpc = "update_target" /\ hot_set = l_hot /\ warm_set = l_warm
          /\ last_rotation' # last_rotation =>
                 /\ lpc = "mark"
                 /\ hot_set = l_hot /\ warm_set = l_warm
                 /\ current = l_hot \cup l_warm
          /\ (lpc = "tick" /\ lpc' = "tick") => UNCHANGED <<hot_set, warm_set, current>>]_vars

\* The second rotation step is complete, it replaced a key of the first
\* step's WARM set, and the processing loop has subscribed at the venue.
C33_Witness ==
    /\ lpc = "tick"
    /\ loop_rotations = 2
    /\ warm_set # {}
    /\ hot_set # {}
    /\ last_update.before # current
    /\ remote # {}

(***************************************************************************)
(* C34                                                                     *)
(***************************************************************************)
\* C34: with an adaptor that makes the sequence numbers itself and loses no
\* update, the sequences delivered for every key are 1, 2, 3, ... of the
\* key's own counter, and the sequence tracker of the metrics reports no gap
\* and no out-of-order update, however many keys are subscribed.
C34_SynthesizedSequencesHaveNoGap ==
    \A k \in BookKeys :
        /\ streams[k] = [i \in 1..Len(streams[k]) |-> i]
        /\ sequence_gaps[k].gaps_detected = 0
        /\ sequence_gaps[k].out_of_order = 0

(***************************************************************************)
(* C35                                                                     *)
(***************************************************************************)
\* The write call holds the guard of current_bucket and waits for the
\* buffer's; the periodic task holds the buffer's guard and waits for
\* current_bucket's.
WriterDeadlocked ==
    /\ wpc \in {"lock_buffer_rollover", "lock_buffer_push"}
    /\ bucket_lock = "write"
    /\ buffer_lock = "timer"
    /\ tpc = "lock_bucket"

\* C35: the writer cannot deadlock: no interleaving of write (current_bucket,
\* then buffer) with the periodic flush task (buffer, then current_bucket)
\* reaches a state in which each waits for the mutex the other holds, so every
\* write call returns.
C35_NoWriterDeadlock == ~WriterDeadlocked

(***************************************************************************)
(* C36                                                                     *)
(***************************************************************************)
\* The ids of the rows in the published files.
PublishedRows ==
    UNION {{files[f].rows[i].id : i \in 1..Len(files[f].rows)} :
              f \in {g \in FileNames : g[3] = "parquet" /\ files[g].exists}}

\* C36: no accepted row is lost from disk: when no flush has failed, the
\* buffer is empty and no flush is in progress, every row whose write call
\* returned Ok is in a published `.parquet` file.
C36_AcceptedRowsOnDisk ==
    (~flush_failed /\ buffer = <<>> /\ fl = NoFlush) => accepted \subseteq PublishedRows

(***************************************************************************)
(* C37                                                                     *)
(***************************************************************************)
\* The instants of the key's samples whose write returned Ok.
SuccessfulSampleTimes(key) ==
    {samples[key][i].at : i \in {j \in 1..Len(samples[key]) : samples[key][j].ok}}

\* The tick passes over the key in this step: it is not due.
SkippedNow(key) ==
    /\ spc = "loop" /\ spc' = "loop"
    /\ snap_todo # <<>> /\ Head(snap_todo) = key
    /\ snap_todo' = Tail(snap_todo)

\* Every write of the snapshot task has returned Ok.
AllWritesOk == \A k \in BookKeys : \A i \in 1..Len(samples[k]) : samples[k][i].ok

\* C37: while writes succeed, a key with a stored book that is in the HOT set
\* is sampled within snapshot_interval_hot plus one tick of entering HOT, also
\* when it comes from WARM or has an old next_snapshot entry, and then at
\* least once per snapshot_interval_hot plus one tick: a tick passes over such
\* a key only when the key entered HOT, or was last sampled, less than
\* snapshot_interval_hot plus one tick before.
C37_HotKeySampledInTime ==
    [][\A k \in BookKeys :
          (/\ SkippedNow(k)
           /\ AllWritesOk
           /\ k \in seen_hot
           /\ hot_since[k] # -1 /\ hot_since[k] <= snap_at) =>
              \/ snap_at < hot_since[k] + SnapshotIntervalMsHot + TickMs
              \/ \E t \in SuccessfulSampleTimes(k) :
                     t >= hot_since[k] /\ snap_at < t + SnapshotIntervalMsHot + TickMs]_vars

(***************************************************************************)
(* C38                                                                     *)
(***************************************************************************)
\* C38: pending work drains: with a churn limit of at least 1 and adaptor
\* calls that do not fail, every process_pending cycle that begins a new
\* churn window with keys queued passes at least one of them to the adaptor,
\* and a key leaves pending_add or pending_remove only by being passed to
\* subscribe or to unsubscribe; so the cycles empty both queues and every
\* queued key has been passed to the adaptor.
C38_PendingDrainsToAdaptor ==
    [][(churn_limit >= 1 /\ loop_running') =>
           /\ (last_churn' # last_churn /\ ~Drained) => last_cycle' # <<>>
           /\ Range(pending_add) \ Range(pending_add') \subseteq KeysPassed(last_cycle', "sub")
           /\ Range(pending_remove) \ Range(pending_remove')
                  \subseteq KeysPassed(last_cycle', "unsub")]_vars

(***************************************************************************)
(* C39                                                                     *)
(***************************************************************************)
\* The number of adaptor calls issued since the last reset of the churn
\* window (since construction, before the first reset).
CallsSinceReset == Cardinality({i \in 1..Len(call_times) : call_times[i] >= last_churn})

\* C39: churn_count never exceeds churn_limit_per_minute, at most
\* churn_limit_per_minute adaptor calls (subscribe plus unsubscribe, failed
\* ones included) are issued between two consecutive resets of the churn
\* window, and with a limit of 0 no adaptor call is issued at all.
C39_ChurnWithinLimitPerWindow ==
    /\ churn_count <= churn_limit
    /\ CallsSinceReset <= churn_limit
    /\ churn_limit = 0 => call_times = <<>>

\* The window was reset, the limit of calls has been issued since, and calls
\* were issued before the reset too.
C39_Witness ==
    /\ churn_limit >= 1
    /\ last_churn > 0
    /\ churn_count = churn_limit
    /\ CallsSinceReset = churn_limit
    /\ Len(call_times) > churn_limit

(***************************************************************************)
(* C40                                                                     *)
(***************************************************************************)
\* C40: with every target passed to update_target holding at most max_subs
\* keys, the number of keys subscribed at the venue (sent to subscribe and
\* not yet sent to unsubscribe) is at most max_subs at every moment, also
\* while the adds and removes of a rotation are only partly processed.
C40_VenueSubscriptionsWithinMaxSubs ==
    Cardinality(remote) <= max_subs

====
